---- MODULE Spec2Model ----
(***************************************************************************)
(* Host-side runtime configuration of imxrt-rt (src/src/host.rs): the      *)
(* family registry, the FlexRAM bank-layout encoder, the RuntimeBuilder    *)
(* with its constructors and setters, check_configurations and             *)
(* write_linker_script.                                                    *)
(***************************************************************************)
EXTENDS Integers, Sequences, FiniteSets, TLC

VARIABLES
    pc,       \* position of the build script: "new", "configured", "written"
    b,        \* the RuntimeBuilder value (all of its fields)
    calls,    \* number of setter calls made on the builder
    result,   \* how write_linker_script ended: status and error, the lines
              \* written to the writer (output), the lines printed for the
              \* enclosing build system (stdout)
    checked,  \* what check_configurations returned, for the validator
              \* specification
    enc,      \* the encoder's input and output, for the encoder specification
    host,     \* the process the build script runs in: its environment
              \* variables, and how the crate was compiled (the "device"
              \* feature, overflow checks)
    files,    \* the file system: the content of each file written
    target    \* the processor running __pre_init on the linked image: the
              \* linker's symbols, the registers, the flag of the family
              \* test, the memory and the stores made so far

vars == <<pc, b, calls, result, checked, enc, host, files, target>>

(***************************************************************************)
(* TLC keeps the fields of a record in the order in which their names      *)
(* first appear in the module.  Every record of the model lists its fields *)
(* in the order given here, so that no record is ever rearranged after it  *)
(* has been built.                                                         *)
(***************************************************************************)
FieldOrder ==
    <<[panic |-> 0], [ok |-> 0], [printed |-> 0], [val |-> 0], [overflow |-> 0],
      [hi |-> 0], [lo |-> 0], [status |-> 0], [err |-> 0], [output |-> 0],
      [stdout |-> 0], [written |-> 0], [msg |-> 0], [section |-> 0],
      [line |-> 0], [lines |-> 0], [name |-> 0], [placement |-> 0],
      [origin |-> 0], [length |-> 0], [value |-> 0], [file |-> 0],
      [size |-> 0], [offset |-> 0], [family |-> 0], [flexspi |-> 0],
      [boot_header |-> 0], [banks |-> 0], [bank_count |-> 0], [layout |-> 0],
      [len |-> 0], [done |-> 0], [out |-> 0], [min |-> 0], [flash |-> 0],
      [default |-> 0], [env |-> 0], [ocram |-> 0], [dtcm |-> 0], [itcm |-> 0],
      [flexram_layout |-> 0], [text |-> 0], [rodata |-> 0], [data |-> 0],
      [vectors |-> 0], [bss |-> 0], [uninit |-> 0], [stack |-> 0],
      [stack_size |-> 0], [heap |-> 0], [heap_size |-> 0], [flash_opts |-> 0],
      [linker_script_name |-> 0], [device_script_name |-> 0],
      [environ |-> 0], [feature_device |-> 0], [overflow_checks |-> 0],
      [out_dir |-> 0], [fs_writable |-> 0], [image |-> 0], [regs |-> 0],
      [eq |-> 0], [mem |-> 0], [stores |-> 0]>>

(***************************************************************************)
(* Bounds of the model.                                                    *)
(***************************************************************************)
\* Largest per-role bank count handed to FlexRamBanks in the encoder runs.
MaxBanksArg == 16
\* Longest free-form (any order, any kind) layout handed to flexram_layout.
MaxLayoutLen == 2
\* Most setter calls made on one builder before it is written.
MaxSetters == 1
\* Most words in a section of the linked image.
MaxWords == 2

(***************************************************************************)
(* Option<T>: None is the empty tuple, Some(v) the one-element tuple.      *)
(***************************************************************************)
None == << >>
Some(v) == <<v>>
IsSome(o) == Len(o) = 1
Unwrap(o) == o[1]

(***************************************************************************)
(* u32 values, kept as two 16-bit limbs so that all 32 bits are exact.     *)
(***************************************************************************)
Limb == 256 * 256
U32(hi, lo) == [hi |-> hi, lo |-> lo]
Zero32 == U32(0, 0)
\* A natural number below 2^31 as a u32.
ToU32(n) == U32(n \div Limb, n % Limb)

RECURSIVE BitOr(_, _)
\* Bitwise OR of two naturals, bit by bit from the lowest.
BitOr(x, y) ==
    IF x = 0 THEN y
    ELSE IF y = 0 THEN x
    ELSE (IF (x % 2 = 1) \/ (y % 2 = 1) THEN 1 ELSE 0)
         + 2 * BitOr(x \div 2, y \div 2)

\* `a + b` on u32: the wrapped sum and whether it overflowed.
U32Add(x, y) ==
    LET lo == x.lo + y.lo
        hi == x.hi + y.hi + (lo \div Limb)
    IN  [val |-> U32(hi % Limb, lo % Limb), overflow |-> hi >= Limb]

\* `a | b` on u32.
U32Or(x, y) == U32(BitOr(x.hi, y.hi), BitOr(x.lo, y.lo))

\* `(v as u32) << shift` for v < 4 and shift < 32: bits shifted past bit 31
\* are dropped.
U32Shl(v, shift) ==
    IF shift < 16
    THEN U32((v * 2^shift) \div Limb, (v * 2^shift) % Limb)
    ELSE U32((v * 2^(shift - 16)) % Limb, 0)

(***************************************************************************)
(* The closed enumerations.                                                *)
(***************************************************************************)
Family == {"Imxrt1010", "Imxrt1015", "Imxrt1020", "Imxrt1040", "Imxrt1050",
           "Imxrt1060", "Imxrt1064", "Imxrt1160", "Imxrt1170", "Imxrt1180"}

Memory == {"Flash", "Dtcm", "Itcm", "Ocram"}

FlexSpi == {"FlexSpi1", "FlexSpi2"}

FlexRamKind == {"Unused", "Ocram", "Dtcm", "Itcm"}

\* The codes with those of Dtcm and Itcm exchanged.
KindCode_TcmExchanged(kind) ==
    CASE kind = "Unused" -> 0
      [] kind = "Ocram" -> 1
      [] kind = "Dtcm" -> 3
      [] kind = "Itcm" -> 2

\* `kind as u32` (#[repr(u32)]).
KindCode(kind) ==
    CASE kind = "Unused" -> 0
      [] kind = "Ocram"  -> 1
      [] kind = "Dtcm"   -> 2
      [] kind = "Itcm"   -> 3

(***************************************************************************)
(* FlexSpi                                                                 *)
(***************************************************************************)
\* family_default with the two match arms exchanged.
family_default_Exchanged(family) ==
    IF family = "Imxrt1064" THEN "FlexSpi1" ELSE "FlexSpi2"

family_default(family) ==
    IF family = "Imxrt1064" THEN "FlexSpi2" ELSE "FlexSpi1"

\* start_address with Imxrt1040 listed among the 10xx families that lack
\* FlexSPI2.
start_address_No1040(flexspi, family) ==
    CASE flexspi = "FlexSpi1"
         /\ family \in {"Imxrt1010", "Imxrt1015", "Imxrt1020", "Imxrt1040",
                        "Imxrt1050", "Imxrt1060", "Imxrt1064"}
           -> Some(U32(24576, 0))
      [] flexspi = "FlexSpi2"
         /\ family \in {"Imxrt1010", "Imxrt1015", "Imxrt1020", "Imxrt1040",
                        "Imxrt1050"}
           -> None
      [] flexspi = "FlexSpi2" /\ family \in {"Imxrt1060", "Imxrt1064"}
           -> Some(U32(28672, 0))
      [] flexspi = "FlexSpi1" /\ family = "Imxrt1160" -> Some(U32(12288, 0))
      [] flexspi = "FlexSpi2" /\ family = "Imxrt1160" -> Some(U32(24576, 0))
      [] flexspi = "FlexSpi1" /\ family = "Imxrt1170" -> Some(U32(12288, 0))
      [] flexspi = "FlexSpi2" /\ family = "Imxrt1170" -> Some(U32(24576, 0))
      [] flexspi = "FlexSpi1" /\ family = "Imxrt1180" -> Some(U32(10240, 0))
      [] flexspi = "FlexSpi2" /\ family = "Imxrt1180" -> Some(U32(1024, 0))

\* Option<u32>: the start address of the FlexSPI instance on this family.
start_address(flexspi, family) ==
    CASE flexspi = "FlexSpi1"
         /\ family \in {"Imxrt1010", "Imxrt1015", "Imxrt1020", "Imxrt1040",
                        "Imxrt1050", "Imxrt1060", "Imxrt1064"}
           -> Some(U32(24576, 0))                      \* 0x6000_0000
      [] flexspi = "FlexSpi2"
         /\ family \in {"Imxrt1010", "Imxrt1015", "Imxrt1020", "Imxrt1050"}
           -> None
      [] flexspi = "FlexSpi2"
         /\ family \in {"Imxrt1040", "Imxrt1060", "Imxrt1064"}
           -> Some(U32(28672, 0))                      \* 0x7000_0000
      [] flexspi = "FlexSpi1" /\ family = "Imxrt1160" -> Some(U32(12288, 0))
      [] flexspi = "FlexSpi2" /\ family = "Imxrt1160" -> Some(U32(24576, 0))
      [] flexspi = "FlexSpi1" /\ family = "Imxrt1170" -> Some(U32(12288, 0))
      [] flexspi = "FlexSpi2" /\ family = "Imxrt1170" -> Some(U32(24576, 0))
      [] flexspi = "FlexSpi1" /\ family = "Imxrt1180" -> Some(U32(10240, 0))
      [] flexspi = "FlexSpi2" /\ family = "Imxrt1180" -> Some(U32(1024, 0))

supported_for_family(flexspi, family) == IsSome(start_address(flexspi, family))

flexspi_start_addr(family, flexspi) == start_address(flexspi, family)

(***************************************************************************)
(* Family facts.                                                           *)
(***************************************************************************)
\* Family::id, as a natural number (0x1010 = 4112, ...).
id(family) ==
    CASE family = "Imxrt1010" -> 4112
      [] family = "Imxrt1015" -> 4117
      [] family = "Imxrt1020" -> 4128
      [] family = "Imxrt1040" -> 4160
      [] family = "Imxrt1050" -> 4176
      [] family = "Imxrt1060" -> 4192
      [] family = "Imxrt1064" -> 4196
      [] family = "Imxrt1160" -> 4448
      [] family = "Imxrt1170" -> 4464
      [] family = "Imxrt1180" -> 4480

flexram_bank_count(family) ==
    CASE family \in {"Imxrt1010", "Imxrt1015"} -> 4
      [] family = "Imxrt1020" -> 8
      [] family \in {"Imxrt1040", "Imxrt1050", "Imxrt1060", "Imxrt1064"} -> 16
      [] family \in {"Imxrt1160", "Imxrt1170"} -> 16
      [] family = "Imxrt1180" -> 2

flexram_bank_size(family) ==
    IF family = "Imxrt1180" THEN 128 * 1024 ELSE 32 * 1024

\* bootrom_ocram_banks with one OCRAM bank required on every 10xx family.
bootrom_ocram_banks_All10xx(family) ==
    CASE family \in {"Imxrt1010", "Imxrt1015", "Imxrt1020", "Imxrt1040",
                     "Imxrt1050", "Imxrt1060", "Imxrt1064"} -> 1
      [] family \in {"Imxrt1160", "Imxrt1170", "Imxrt1180"} -> 0

bootrom_ocram_banks(family) ==
    CASE family \in {"Imxrt1010", "Imxrt1015", "Imxrt1020", "Imxrt1040",
                     "Imxrt1050"} -> 1
      [] family \in {"Imxrt1060", "Imxrt1064"} -> 0
      [] family \in {"Imxrt1160", "Imxrt1170", "Imxrt1180"} -> 0

fcb_offset(family) ==
    IF family \in {"Imxrt1010", "Imxrt1160", "Imxrt1170", "Imxrt1180"}
    THEN 1024 ELSE 0

\* Family::ocram_start, below 2^31.
ocram_start(family) ==
    CASE family = "Imxrt1170" -> 8228 * Limb           \* 0x2024_0000
      [] family = "Imxrt1160" -> 8244 * Limb           \* 0x2034_0000
      [] family = "Imxrt1180" -> 8264 * Limb + 16384   \* 0x2048_4000
      [] OTHER                -> 8224 * Limb           \* 0x2020_0000

dedicated_ocram_size(family) ==
    CASE family \in {"Imxrt1010", "Imxrt1015", "Imxrt1020", "Imxrt1040",
                     "Imxrt1050"} -> 0
      [] family \in {"Imxrt1060", "Imxrt1064"} -> 512 * 1024
      [] family = "Imxrt1160" -> (2 * 64 + 128) * 1024
      [] family = "Imxrt1170" -> (2 * 512 + 2 * 64 + 128) * 1024
      [] family = "Imxrt1180" -> (512 + 256 - 16) * 1024

\* FlexRamBanks { ocram, dtcm, itcm }
FlexRamBanks(ocram, dtcm, itcm) == [ocram |-> ocram, dtcm |-> dtcm, itcm |-> itcm]

default_flexram_banks(family) ==
    CASE family \in {"Imxrt1010", "Imxrt1015"} -> FlexRamBanks(2, 1, 1)
      [] family = "Imxrt1020" -> FlexRamBanks(4, 2, 2)
      [] family \in {"Imxrt1040", "Imxrt1050", "Imxrt1060", "Imxrt1064"}
           -> FlexRamBanks(8, 4, 4)
      [] family \in {"Imxrt1160", "Imxrt1170"} -> FlexRamBanks(0, 8, 8)
      [] family = "Imxrt1180" -> FlexRamBanks(0, 1, 1)

\* n copies of kind, as a sequence.
Rep(kind, n) == [i \in 1..n |-> kind]

default_flexram_layout(family) ==
    CASE family \in {"Imxrt1010", "Imxrt1015"}
           -> <<"Ocram", "Ocram", "Dtcm", "Itcm">>
      [] family = "Imxrt1020"
           -> <<"Ocram", "Ocram", "Dtcm", "Dtcm", "Itcm", "Itcm", "Ocram", "Ocram">>
      [] family \in {"Imxrt1040", "Imxrt1050", "Imxrt1060", "Imxrt1064"}
           -> Rep("Ocram", 4) \o Rep("Dtcm", 2) \o Rep("Itcm", 4)
              \o Rep("Dtcm", 2) \o Rep("Ocram", 4)
      [] family \in {"Imxrt1160", "Imxrt1170"}
           -> Rep("Dtcm", 4) \o Rep("Itcm", 4) \o Rep("Dtcm", 4) \o Rep("Itcm", 4)
      [] family = "Imxrt1180" -> <<"Itcm", "Dtcm">>

\* usize::saturating_sub
saturating_sub(x, y) == IF x >= y THEN x - y ELSE 0

\* (start, size) of the ITCM region.
\* itcm_start_size without the reservation for null pointers.
itcm_start_size_FromZero(family, itcm_banks) ==
    IF family = "Imxrt1180"
    THEN <<268435456 - itcm_banks * flexram_bank_size(family),
           itcm_banks * flexram_bank_size(family)>>
    ELSE <<0, itcm_banks * flexram_bank_size(family)>>

itcm_start_size(family, itcm_banks) ==
    IF family = "Imxrt1180"
    THEN <<268435456 - itcm_banks * flexram_bank_size(family),
           itcm_banks * flexram_bank_size(family)>>
    ELSE <<32, saturating_sub(itcm_banks * flexram_bank_size(family), 32)>>

(***************************************************************************)
(* The bank-layout encoder.                                                *)
(***************************************************************************)
\* to_flexram_layout with the ITCM loop placed before the DTCM loop.
to_flexram_layout_ItcmFirst(banks) ==
    Rep("Ocram", banks.ocram) \o Rep("Itcm", banks.itcm) \o Rep("Dtcm", banks.dtcm)

\* FlexRamBanks::to_flexram_layout: OCRAM first, then DTCM, then ITCM.
to_flexram_layout(banks) ==
    Rep("Ocram", banks.ocram) \o Rep("Dtcm", banks.dtcm) \o Rep("Itcm", banks.itcm)

layout_count_of(kind, layout) ==
    Cardinality({i \in 1..Len(layout) : layout[i] = kind})

\* The value a call returns, or the panic that ends it.
Returned(v) == [panic |-> FALSE, val |-> v, msg |-> ""]
Panicked(m) == [panic |-> TRUE, val |-> Zero32, msg |-> m]

RECURSIVE FlexramMask_Assign(_, _, _, _)
\* The loop with `mask = kind << shift` in place of `mask |= kind << shift`.
FlexramMask_Assign(layout, i, mask, shift) ==
    IF i > Len(layout) THEN mask
    ELSE FlexramMask_Assign(layout, i + 1, U32Shl(KindCode(layout[i]), shift),
                            shift + 2)

RECURSIVE FlexramMask(_, _, _, _)
\* The loop of flexram_config: `mask |= kind << shift; shift += 2` from
\* entry i on.
FlexramMask(layout, i, mask, shift) ==
    IF i > Len(layout) THEN mask
    ELSE FlexramMask(layout, i + 1,
                     U32Or(mask, U32Shl(KindCode(layout[i]), shift)),
                     shift + 2)

\* The fixed codes with those of 2 ITCM and of 2 DTCM exchanged.
Flexram1180Code_Exchanged(itcm_count, dtcm_count, ocram_count) ==
    CASE <<itcm_count, dtcm_count, ocram_count>> = <<1, 1, 0>> -> Returned(U32(0, 0))
      [] <<itcm_count, dtcm_count, ocram_count>> = <<2, 0, 0>> -> Returned(U32(0, 1))
      [] <<itcm_count, dtcm_count, ocram_count>> = <<0, 2, 0>> -> Returned(U32(0, 2))
      [] OTHER -> Panicked("Unsupported FlexRAM configuration")

\* The fixed codes of the two-bank family.
Flexram1180Code(itcm_count, dtcm_count, ocram_count) ==
    CASE <<itcm_count, dtcm_count, ocram_count>> = <<1, 1, 0>> -> Returned(U32(0, 0))
      [] <<itcm_count, dtcm_count, ocram_count>> = <<2, 0, 0>> -> Returned(U32(0, 2))
      [] <<itcm_count, dtcm_count, ocram_count>> = <<0, 2, 0>> -> Returned(U32(0, 1))
      [] OTHER -> Panicked("Unsupported FlexRAM configuration")

flexram_config(family, layout) ==
    IF ~(Len(layout) <= flexram_bank_count(family))
    THEN Panicked("FlexRAM layout contains too many banks")
    ELSE IF family = "Imxrt1180"
    THEN Flexram1180Code(layout_count_of("Itcm", layout),
                         layout_count_of("Dtcm", layout),
                         layout_count_of("Ocram", layout))
    ELSE Returned(FlexramMask(layout, 1, Zero32, 0))

(***************************************************************************)
(* FlashOpts and EnvOverride.                                              *)
(***************************************************************************)
FlashOpts(size, offset, flexspi, boot_header) ==
    [size |-> size, offset |-> offset, flexspi |-> flexspi,
     boot_header |-> boot_header]

\* FlashOpts::flash_origin: Option of the sum `start_address + offset`,
\* the sum being [val, overflow].
flash_origin(flash_opts, family) ==
    IF IsSome(start_address(flash_opts.flexspi, family))
    THEN Some(U32Add(Unwrap(start_address(flash_opts.flexspi, family)),
                     flash_opts.offset))
    ELSE None

EnvOverride_new(default) == [default |-> default, env |-> None]

\* set_env_key that starts a new override, dropping the default.
set_env_key_KeepFirst(ov, key) ==
    IF IsSome(ov.env) THEN ov ELSE [ov EXCEPT !.env = Some(key)]

set_env_key_Fresh(ov, key) == [default |-> 0, env |-> Some(key)]

set_env_key(ov, key) == [ov EXCEPT !.env = Some(key)]

(***************************************************************************)
(* usize of the host: UsizeLimbs limbs of 16 bits, least significant       *)
(* first.                                                                  *)
(***************************************************************************)
UsizeLimbs == 4

ToUsize(n) ==
    [i \in 1..UsizeLimbs |->
        IF i = 1 THEN n % Limb ELSE IF i = 2 THEN n \div Limb ELSE 0]

RECURSIVE UsizeMulAdd(_, _, _, _)
\* x * m + carry from limb i on: the wrapped product, and whether it
\* overflowed the width.
UsizeMulAdd(x, m, carry, i) ==
    IF i > UsizeLimbs THEN [val |-> x, overflow |-> carry # 0]
    ELSE UsizeMulAdd([x EXCEPT ![i] = (x[i] * m + carry) % Limb], m,
                     (x[i] * m + carry) \div Limb, i + 1)

(***************************************************************************)
(* The process environment and EnvOverride::read.  A value is the text of  *)
(* the variable, one character per element; InvalidUnicode stands for a    *)
(* byte sequence that is not valid Unicode.                                *)
(***************************************************************************)
InvalidUnicode == "<invalid unicode>"

\* env::var(key).ok(): None when the variable is not present and when its
\* value is not valid Unicode.
env_var_ok(environ, key) ==
    IF key \in DOMAIN environ /\ IsSome(environ[key])
       /\ \A i \in 1..Len(Unwrap(environ[key])) :
             Unwrap(environ[key])[i] # InvalidUnicode
    THEN environ[key]
    ELSE None

Digits == <<"0", "1", "2", "3", "4", "5", "6", "7", "8", "9">>
IsDigit(c) == \E d \in 1..10 : Digits[d] = c
DigitVal(c) == (CHOOSE d \in 1..10 : Digits[d] = c) - 1

RECURSIVE ParseDigits(_, _, _)
\* `result.checked_mul(10)` and `checked_add(digit)` for every digit: an
\* error when the number does not fit usize.
ParseDigits(text, i, acc) ==
    IF i > Len(text) THEN [ok |-> TRUE, val |-> acc]
    ELSE IF UsizeMulAdd(acc, 10, DigitVal(text[i]), 1).overflow
    THEN [ok |-> FALSE, val |-> acc]
    ELSE ParseDigits(text, i + 1, UsizeMulAdd(acc, 10, DigitVal(text[i]), 1).val)

\* str::parse::<usize>: an optional '+', then one or more decimal digits.
parse_usize(text) ==
    LET digits == IF Len(text) > 0 /\ text[1] = "+" THEN Tail(text) ELSE text
    IN  IF Len(digits) > 0 /\ \A i \in 1..Len(digits) : IsDigit(digits[i])
        THEN ParseDigits(digits, 1, ToUsize(0))
        ELSE [ok |-> FALSE, val |-> ToUsize(0)]

ends_with_k(text) == Len(text) > 0 /\ text[Len(text)] \in {"k", "K"}

\* How EnvOverride::read ends.
ReadOk(printed, val) == [panic |-> FALSE, ok |-> TRUE, printed |-> printed, val |-> val]
ReadErr(printed) ==
    [panic |-> FALSE, ok |-> FALSE, printed |-> printed, val |-> ToUsize(0)]
ReadPanic(printed) ==
    [panic |-> TRUE, ok |-> FALSE, printed |-> printed, val |-> ToUsize(0)]

\* EnvOverride::read declaring the variable only when it is set.
EnvOverride_read_DeclaresIfSet(ov, environ, overflow_checks) ==
    LET val == IF IsSome(ov.env) THEN env_var_ok(environ, Unwrap(ov.env)) ELSE None
        printed == IF IsSome(val)
                   THEN <<[line |-> "cargo:rerun-if-env-changed", env |-> Unwrap(ov.env)]>>
                   ELSE << >>
        parsed == IF ends_with_k(Unwrap(val))
                  THEN parse_usize(SubSeq(Unwrap(val), 1, Len(Unwrap(val)) - 1))
                  ELSE parse_usize(Unwrap(val))
        scaled == UsizeMulAdd(parsed.val, 1024, 0, 1)
    IN  IF ~IsSome(val) THEN ReadOk(printed, ToUsize(ov.default))
        ELSE IF ~parsed.ok THEN ReadErr(printed)
        ELSE IF ~ends_with_k(Unwrap(val)) THEN ReadOk(printed, parsed.val)
        ELSE IF scaled.overflow /\ overflow_checks THEN ReadPanic(printed)
        ELSE ReadOk(printed, scaled.val)

\* EnvOverride::read: the rerun declaration it prints, and the size or the
\* parse error it returns.  overflow_checks: whether `* 1024` panics on
\* overflow or wraps.
EnvOverride_read(ov, environ, overflow_checks) ==
    LET printed == IF IsSome(ov.env)
                   THEN <<[line |-> "cargo:rerun-if-env-changed", env |-> Unwrap(ov.env)]>>
                   ELSE << >>
        val == IF IsSome(ov.env) THEN env_var_ok(environ, Unwrap(ov.env)) ELSE None
        parsed == IF ends_with_k(Unwrap(val))
                  THEN parse_usize(SubSeq(Unwrap(val), 1, Len(Unwrap(val)) - 1))
                  ELSE parse_usize(Unwrap(val))
        scaled == UsizeMulAdd(parsed.val, 1024, 0, 1)
    IN  IF ~IsSome(val) THEN ReadOk(printed, ToUsize(ov.default))
        ELSE IF ~parsed.ok THEN ReadErr(printed)
        ELSE IF ~ends_with_k(Unwrap(val)) THEN ReadOk(printed, parsed.val)
        ELSE IF scaled.overflow /\ overflow_checks THEN ReadPanic(printed)
        ELSE ReadOk(printed, scaled.val)

(***************************************************************************)
(* RuntimeBuilder: constructors.                                           *)
(***************************************************************************)
DEFAULT_LINKER_SCRIPT_NAME == "imxrt-link.x"
DEFAULT_DEVICE_SCRIPT_NAME == "device.x"

from_flexspi(family, flash_size) ==
    [family |-> family,
     flexram_layout |-> default_flexram_layout(family),
     text |-> "Itcm",
     rodata |-> "Ocram",
     data |-> "Ocram",
     vectors |-> "Dtcm",
     bss |-> "Ocram",
     uninit |-> "Ocram",
     stack |-> "Dtcm",
     stack_size |-> EnvOverride_new(8 * 1024),
     heap |-> "Dtcm",
     heap_size |-> EnvOverride_new(0),
     flash_opts |-> Some(FlashOpts(flash_size, Zero32, family_default(family), TRUE)),
     linker_script_name |-> DEFAULT_LINKER_SCRIPT_NAME,
     device_script_name |-> DEFAULT_DEVICE_SCRIPT_NAME]

in_flash_HeaderEnabled(family, partition_size, partition_offset) ==
    [from_flexspi(family, partition_size) EXCEPT
        !.flash_opts = Some(FlashOpts(partition_size, partition_offset,
                                      family_default(family), TRUE))]

in_flash(family, partition_size, partition_offset) ==
    [family |-> family,
     flexram_layout |-> default_flexram_layout(family),
     text |-> "Itcm",
     rodata |-> "Ocram",
     data |-> "Ocram",
     vectors |-> "Dtcm",
     bss |-> "Ocram",
     uninit |-> "Ocram",
     stack |-> "Dtcm",
     stack_size |-> EnvOverride_new(8 * 1024),
     heap |-> "Dtcm",
     heap_size |-> EnvOverride_new(0),
     flash_opts |-> Some(FlashOpts(partition_size, partition_offset,
                                   family_default(family), FALSE)),
     linker_script_name |-> DEFAULT_LINKER_SCRIPT_NAME,
     device_script_name |-> DEFAULT_DEVICE_SCRIPT_NAME]

from_ram_StackInOcram(family) ==
    [from_flexspi(family, 0) EXCEPT !.stack = "Ocram", !.flash_opts = None]

from_ram(family) ==
    [family |-> family,
     flexram_layout |-> default_flexram_layout(family),
     text |-> "Itcm",
     rodata |-> "Ocram",
     data |-> "Ocram",
     vectors |-> "Dtcm",
     bss |-> "Ocram",
     uninit |-> "Ocram",
     stack |-> "Dtcm",
     stack_size |-> EnvOverride_new(8 * 1024),
     heap |-> "Dtcm",
     heap_size |-> EnvOverride_new(0),
     flash_opts |-> None,
     linker_script_name |-> DEFAULT_LINKER_SCRIPT_NAME,
     device_script_name |-> DEFAULT_DEVICE_SCRIPT_NAME]

(***************************************************************************)
(* RuntimeBuilder: setters, as functions of the builder.                   *)
(***************************************************************************)
set_flexram_layout(bldr, flexram_layout) ==
    [bldr EXCEPT !.flexram_layout = flexram_layout]

set_flexram_banks(bldr, flexram_banks) ==
    set_flexram_layout(bldr, to_flexram_layout(flexram_banks))

\* text, rodata, data, vectors, bss, uninit, stack, heap: `self.$sec = memory`.
Sections == {"text", "rodata", "data", "vectors", "bss", "uninit", "stack", "heap"}

\* The stack setter moving the heap along with the stack.
set_section_HeapFollowsStack(bldr, sec, memory) ==
    IF sec = "stack" THEN [bldr EXCEPT !.stack = memory, !.heap = memory]
    ELSE [bldr EXCEPT ![sec] = memory]

set_section(bldr, sec, memory) == [bldr EXCEPT ![sec] = memory]

\* flexspi() that creates flash options when the builder has none.
set_flexspi_Seeding(bldr, peripheral) ==
    IF IsSome(bldr.flash_opts)
    THEN [bldr EXCEPT !.flash_opts = Some([Unwrap(bldr.flash_opts)
                                           EXCEPT !.flexspi = peripheral])]
    ELSE [bldr EXCEPT !.flash_opts = Some(FlashOpts(0, Zero32, peripheral, FALSE))]

set_flexspi(bldr, peripheral) ==
    IF IsSome(bldr.flash_opts)
    THEN [bldr EXCEPT !.flash_opts = Some([Unwrap(bldr.flash_opts)
                                           EXCEPT !.flexspi = peripheral])]
    ELSE bldr

set_boot_header(bldr, boot_header) ==
    IF IsSome(bldr.flash_opts)
    THEN [bldr EXCEPT !.flash_opts = Some([Unwrap(bldr.flash_opts)
                                           EXCEPT !.boot_header = boot_header])]
    ELSE bldr

\* stack_size / heap_size: `self.stack_size.default = bytes`.
set_stack_size(bldr, bytes) == [bldr EXCEPT !.stack_size.default = bytes]
set_heap_size(bldr, bytes) == [bldr EXCEPT !.heap_size.default = bytes]

\* stack_size_env_override / heap_size_env_override:
\* `self.stack_size.set_env_key(key.as_ref().into())`.
set_stack_size_env_override(bldr, key) ==
    [bldr EXCEPT !.stack_size = set_env_key(bldr.stack_size, key)]
set_heap_size_env_override(bldr, key) ==
    [bldr EXCEPT !.heap_size = set_env_key(bldr.heap_size, key)]

set_linker_script_name(bldr, name) == [bldr EXCEPT !.linker_script_name = name]
set_device_script_name(bldr, name) == [bldr EXCEPT !.device_script_name = name]

(***************************************************************************)
(* RuntimeBuilder::check_configurations.                                   *)
(***************************************************************************)
NoError == [msg |-> "none"]
CheckOk == [ok |-> TRUE, err |-> NoError]
CheckErr(e) == [ok |-> FALSE, err |-> e]

ErrTooManyBanks(bldr) ==
    [msg |-> "Chip only has total FlexRAM banks. Cannot allocate",
     family |-> bldr.family,
     bank_count |-> flexram_bank_count(bldr.family),
     layout |-> bldr.flexram_layout,
     len |-> Len(bldr.flexram_layout)]

ErrBootRom(bldr) ==
    [msg |-> "Chip requires at least OCRAM banks for the bootloader ROM",
     family |-> bldr.family,
     min |-> bootrom_ocram_banks(bldr.family)]

ErrFlexSpi(bldr) ==
    [msg |-> "Chip does not support",
     family |-> bldr.family,
     flexspi |-> Unwrap(bldr.flash_opts).flexspi]

\* prevent_flash(name, memory)
ErrSection(name) ==
    [msg |-> "Section cannot be placed in flash", section |-> name]
\* prevent_flash reporting a fixed section name instead of its argument.
prevent_flash_FixedName(name, memory) ==
    IF memory = "Flash" THEN CheckErr(ErrSection("data")) ELSE CheckOk

prevent_flash(name, memory) ==
    IF memory = "Flash" THEN CheckErr(ErrSection(name)) ELSE CheckOk

\* The order of the prevent_flash!(...)? lines.
PreventFlashOrder == <<"data", "vectors", "bss", "uninit", "stack", "heap">>

RECURSIVE PreventFlashFrom(_, _)
\* prevent_flash!(sec)? for the sections from position i on: the first error.
PreventFlashFrom(bldr, i) ==
    IF i > Len(PreventFlashOrder) THEN CheckOk
    ELSE IF ~prevent_flash(PreventFlashOrder[i], bldr[PreventFlashOrder[i]]).ok
    THEN prevent_flash(PreventFlashOrder[i], bldr[PreventFlashOrder[i]])
    ELSE PreventFlashFrom(bldr, i + 1)

\* check_configurations with a fifth check: a flash size of zero.
check_configurations_NeedsFlashSize(bldr) ==
    IF flexram_bank_count(bldr.family) < Len(bldr.flexram_layout)
    THEN CheckErr(ErrTooManyBanks(bldr))
    ELSE IF layout_count_of("Ocram", bldr.flexram_layout)
            < bootrom_ocram_banks(bldr.family)
    THEN CheckErr(ErrBootRom(bldr))
    ELSE IF IsSome(bldr.flash_opts)
            /\ ~supported_for_family(Unwrap(bldr.flash_opts).flexspi, bldr.family)
    THEN CheckErr(ErrFlexSpi(bldr))
    ELSE IF IsSome(bldr.flash_opts) /\ Unwrap(bldr.flash_opts).size = 0
    THEN CheckErr(ErrFlexSpi(bldr))
    ELSE PreventFlashFrom(bldr, 1)

\* check_configurations comparing the bank count with the number of used
\* (not Unused) entries instead of the length of the layout.
check_configurations_UsedOnly(bldr) ==
    IF flexram_bank_count(bldr.family)
         < Len(bldr.flexram_layout) - layout_count_of("Unused", bldr.flexram_layout)
    THEN CheckErr(ErrTooManyBanks(bldr))
    ELSE IF layout_count_of("Ocram", bldr.flexram_layout)
            < bootrom_ocram_banks(bldr.family)
    THEN CheckErr(ErrBootRom(bldr))
    ELSE IF IsSome(bldr.flash_opts)
            /\ ~supported_for_family(Unwrap(bldr.flash_opts).flexspi, bldr.family)
    THEN CheckErr(ErrFlexSpi(bldr))
    ELSE PreventFlashFrom(bldr, 1)

\* check_configurations with the boot-ROM check ahead of the bank-count
\* check.
check_configurations_BootRomFirst(bldr) ==
    IF layout_count_of("Ocram", bldr.flexram_layout)
         < bootrom_ocram_banks(bldr.family)
    THEN CheckErr(ErrBootRom(bldr))
    ELSE IF flexram_bank_count(bldr.family) < Len(bldr.flexram_layout)
    THEN CheckErr(ErrTooManyBanks(bldr))
    ELSE IF IsSome(bldr.flash_opts)
            /\ ~supported_for_family(Unwrap(bldr.flash_opts).flexspi, bldr.family)
    THEN CheckErr(ErrFlexSpi(bldr))
    ELSE PreventFlashFrom(bldr, 1)

check_configurations(bldr) ==
    IF flexram_bank_count(bldr.family) < Len(bldr.flexram_layout)
    THEN CheckErr(ErrTooManyBanks(bldr))
    ELSE IF layout_count_of("Ocram", bldr.flexram_layout)
            < bootrom_ocram_banks(bldr.family)
    THEN CheckErr(ErrBootRom(bldr))
    ELSE IF IsSome(bldr.flash_opts)
            /\ ~supported_for_family(Unwrap(bldr.flash_opts).flexspi, bldr.family)
    THEN CheckErr(ErrFlexSpi(bldr))
    ELSE PreventFlashFrom(bldr, 1)

(***************************************************************************)
(* The emitter.  A written line is a record; `line` names the line and the *)
(* other fields are the values formatted into it.                          *)
(***************************************************************************)
\* Display for Memory
MemoryName(memory) ==
    CASE memory = "Flash" -> "FLASH"
      [] memory = "Itcm"  -> "ITCM"
      [] memory = "Dtcm"  -> "DTCM"
      [] memory = "Ocram" -> "OCRAM"

region_alias_LoadFromFlash(name, placement) ==
    [line |-> "REGION_ALIAS", name |-> name,
     placement |-> IF name \in {"LOAD_VTABLE", "LOAD_TEXT", "LOAD_RODATA", "LOAD_DATA"}
                   THEN "FLASH" ELSE MemoryName(placement)]

region_alias(name, placement) ==
    [line |-> "REGION_ALIAS", name |-> name, placement |-> MemoryName(placement)]

write_flexram_memories(family, flexram_layout) ==
    LET itcm_count == layout_count_of("Itcm", flexram_layout)
        dtcm_count == layout_count_of("Dtcm", flexram_layout)
        ocram_count == layout_count_of("Ocram", flexram_layout)
        ocram_size == ocram_count * flexram_bank_size(family)
                      + dedicated_ocram_size(family)
    IN  (IF itcm_count > 0
         THEN <<[line |-> "ITCM",
                 origin |-> itcm_start_size(family, itcm_count)[1],
                 length |-> itcm_start_size(family, itcm_count)[2]]>>
         ELSE << >>)
        \o (IF dtcm_count > 0
            THEN <<[line |-> "DTCM", origin |-> 8192 * Limb,
                    length |-> dtcm_count * flexram_bank_size(family)]>>
            ELSE << >>)
        \o (IF ocram_size > 0
            THEN <<[line |-> "OCRAM", origin |-> ocram_start(family),
                    length |-> ocram_size]>>
            ELSE << >>)

\* What a step wrote before it returned or panicked.
Wrote(lines) == [panic |-> FALSE, msg |-> "", lines |-> lines]
WrotePanic(lines, m) == [panic |-> TRUE, msg |-> m, lines |-> lines]

\* write_flash_memory_map.  overflow_checks: whether the build checks
\* integer overflow (it panics on overflow) or wraps.
write_flash_memory_map(family, flash_opts, flexram_layout, overflow_checks) ==
    LET head == <<[line |-> "comment", family |-> family,
                   flash |-> Some(flash_opts.size)],
                  [line |-> "MEMORY {"]>>
        origin == flash_origin(flash_opts, family)
    IN  IF ~IsSome(origin) THEN WrotePanic(head, "Already checked")
        ELSE IF Unwrap(origin).overflow /\ overflow_checks
        THEN WrotePanic(head, "attempt to add with overflow")
        ELSE Wrote(head
                   \o <<[line |-> "FLASH", origin |-> Unwrap(origin).val,
                         length |-> flash_opts.size]>>
                   \o write_flexram_memories(family, flexram_layout)
                   \o <<[line |-> "}"],
                        [line |-> "__fcb_offset", value |-> fcb_offset(family)]>>)

\* write_ram_memory_map closing the MEMORY command before the blocks.
write_ram_memory_map_ClosedEarly(family, flexram_layout) ==
    <<[line |-> "comment", family |-> family, flash |-> None],
      [line |-> "MEMORY {"],
      [line |-> "}"]>>
    \o write_flexram_memories(family, flexram_layout)

write_ram_memory_map(family, flexram_layout) ==
    <<[line |-> "comment", family |-> family, flash |-> None],
      [line |-> "MEMORY {"]>>
    \o write_flexram_memories(family, flexram_layout)
    \o <<[line |-> "}"]>>

\* The common boot header for every family.
boot_header_x_Common(family) == "host/imxrt-boot-header.x"

\* The boot header blob selected by the family.
boot_header_x(family) ==
    IF family = "Imxrt1180" THEN "host/imxrt-boot-header-1180.x"
    ELSE "host/imxrt-boot-header.x"

\* The outcome of write_linker_script.
WriteOk(lines, printed) ==
    [status |-> "Ok", err |-> NoError, output |-> lines, stdout |-> printed]
WriteErr(e, lines, printed) ==
    [status |-> "Err", err |-> e, output |-> lines, stdout |-> printed]
WritePanic(m, lines, printed) ==
    [status |-> "Panic", err |-> [msg |-> m], output |-> lines, stdout |-> printed]

ErrParse == [msg |-> "ParseIntError"]

\* write_linker_script(&self, writer) under the environment `environ`, built
\* with or without the "device" feature and overflow checks.
write_linker_script(bldr, environ, feature_device, overflow_checks) ==
    LET check == check_configurations(bldr)
        map == IF IsSome(bldr.flash_opts)
               THEN write_flash_memory_map(bldr.family, Unwrap(bldr.flash_opts),
                                           bldr.flexram_layout, overflow_checks)
               ELSE Wrote(write_ram_memory_map(bldr.family, bldr.flexram_layout))
        header == IF IsSome(bldr.flash_opts) /\ Unwrap(bldr.flash_opts).boot_header
                  THEN <<[line |-> "blob", file |-> boot_header_x(bldr.family)]>>
                  ELSE << >>
        include == IF feature_device
                   THEN <<[line |-> "INCLUDE", file |-> bldr.device_script_name]>>
                   ELSE << >>
        aliases == <<region_alias("TEXT", bldr.text),
                     region_alias("VTABLE", bldr.vectors),
                     region_alias("RODATA", bldr.rodata),
                     region_alias("DATA", bldr.data),
                     region_alias("BSS", bldr.bss),
                     region_alias("UNINIT", bldr.uninit),
                     region_alias("STACK", bldr.stack),
                     region_alias("HEAP", bldr.heap)>>
        upto_aliases == map.lines \o header \o include \o aliases
        stack_read == EnvOverride_read(bldr.stack_size, environ, overflow_checks)
        heap_read == EnvOverride_read(bldr.heap_size, environ, overflow_checks)
        sizes == <<[line |-> "__stack_size", value |-> stack_read.val],
                   [line |-> "__heap_size", value |-> heap_read.val]>>
        loads == IF IsSome(bldr.flash_opts)
                 THEN <<region_alias("LOAD_VTABLE", "Flash"),
                        region_alias("LOAD_TEXT", "Flash"),
                        region_alias("LOAD_RODATA", "Flash"),
                        region_alias("LOAD_DATA", "Flash")>>
                 ELSE <<region_alias("LOAD_VTABLE", bldr.vectors),
                        region_alias("LOAD_TEXT", bldr.text),
                        region_alias("LOAD_RODATA", bldr.rodata),
                        region_alias("LOAD_DATA", bldr.data)>>
        config == flexram_config(bldr.family, bldr.flexram_layout)
        tail == <<[line |-> "__flexram_config", value |-> config.val],
                  [line |-> "__imxrt_rt_v0.2", value |-> id(bldr.family)],
                  [line |-> "blob", file |-> "host/imxrt-link.x"]>>
    IN  IF ~check.ok THEN WriteErr(check.err, << >>, << >>)
        ELSE IF map.panic THEN WritePanic(map.msg, map.lines, << >>)
        ELSE IF stack_read.panic
        THEN WritePanic("attempt to multiply with overflow", upto_aliases,
                        stack_read.printed)
        ELSE IF ~stack_read.ok
        THEN WriteErr(ErrParse, upto_aliases, stack_read.printed)
        ELSE IF heap_read.panic
        THEN WritePanic("attempt to multiply with overflow",
                        upto_aliases \o <<sizes[1]>>,
                        stack_read.printed \o heap_read.printed)
        ELSE IF ~heap_read.ok
        THEN WriteErr(ErrParse, upto_aliases \o <<sizes[1]>>,
                      stack_read.printed \o heap_read.printed)
        ELSE IF config.panic
        THEN WritePanic(config.msg, upto_aliases \o sizes \o loads,
                        stack_read.printed \o heap_read.printed)
        ELSE WriteOk(upto_aliases \o sizes \o loads \o tail,
                     stack_read.printed \o heap_read.printed)

\* The outcome of build: as for write_linker_script, with the path of the
\* file it wrote, if it wrote one.
BuildEnd(status, e, lines, printed, path) ==
    [status |-> status, err |-> e, output |-> lines, stdout |-> printed,
     written |-> path]

ErrVar == [msg |-> "VarError"]
ErrIo == [msg |-> "io::Error"]

\* fs::write(path, bytes): the file holds exactly the bytes.
fs_write_Append(fs, path, bytes) ==
    [p \in DOMAIN fs \cup {path} |->
        IF p # path THEN fs[p]
        ELSE IF path \in DOMAIN fs THEN fs[path] \o bytes ELSE bytes]

fs_write(fs, path, bytes) ==
    [p \in DOMAIN fs \cup {path} |-> IF p = path THEN bytes ELSE fs[p]]

\* build writing the file whatever write_linker_script returned.
build_WritesAnyway(bldr, environ, feature_device, overflow_checks, fs_writable) ==
    LET out_dir == env_var_ok(environ, "OUT_DIR")
        link_search == <<[line |-> "cargo:rustc-link-search",
                          value |-> Unwrap(out_dir)]>>
        in_memory == write_linker_script(bldr, environ, feature_device,
                                         overflow_checks)
    IN  IF ~IsSome(out_dir) THEN BuildEnd("Err", ErrVar, << >>, << >>, None)
        ELSE IF ~fs_writable
        THEN BuildEnd("Err", ErrIo, in_memory.output,
                      link_search \o in_memory.stdout, None)
        ELSE BuildEnd(in_memory.status, in_memory.err, in_memory.output,
                      link_search \o in_memory.stdout,
                      Some(<<Unwrap(out_dir), bldr.linker_script_name>>))

\* build(&self) in a process with the given environment; fs_writable:
\* whether fs::write succeeds.
build(bldr, environ, feature_device, overflow_checks, fs_writable) ==
    LET out_dir == env_var_ok(environ, "OUT_DIR")
        link_search == <<[line |-> "cargo:rustc-link-search",
                          value |-> Unwrap(out_dir)]>>
        in_memory == write_linker_script(bldr, environ, feature_device,
                                         overflow_checks)
    IN  IF ~IsSome(out_dir) THEN BuildEnd("Err", ErrVar, << >>, << >>, None)
        ELSE IF in_memory.status # "Ok"
        THEN BuildEnd(in_memory.status, in_memory.err, in_memory.output,
                      link_search \o in_memory.stdout, None)
        ELSE IF ~fs_writable
        THEN BuildEnd("Err", ErrIo, in_memory.output,
                      link_search \o in_memory.stdout, None)
        ELSE BuildEnd("Ok", NoError, in_memory.output,
                      link_search \o in_memory.stdout,
                      Some(<<Unwrap(out_dir), bldr.linker_script_name>>))

(***************************************************************************)
(* Inputs of the operations.                                               *)
(***************************************************************************)
\* Flash sizes given to from_flexspi: none at all, and 16 MiB.
FlashSizeArgs == {0, 16 * 1024 * 1024}
\* Partition sizes and offsets given to in_flash.
PartitionSizeArgs == {256 * 1024}
OffsetArgs == {ToU32(256 * 1024)}

\* Every sequence of kinds up to n long.
LayoutsUpTo(n) == UNION {[1..k -> FlexRamKind] : k \in 0..n}
\* Free-form layouts given to the encoder and to the validator.
LayoutArgs == LayoutsUpTo(MaxLayoutLen)
\* Free-form layouts given to the flexram_layout setter: every layout that
\* fits the smallest family.
ShortLayoutArgs == LayoutsUpTo(flexram_bank_count("Imxrt1180"))

\* Bank counts given to flexram_banks: layouts that exactly fill, and that
\* exceed by one, the 2, 4, 8 and 16 banks of the families, with and without
\* OCRAM banks, and the counts used by the board and by the tests.
BanksArgs ==
    {FlexRamBanks(0, 12, 4), FlexRamBanks(32, 32, 32),
     FlexRamBanks(1, 1, 14), FlexRamBanks(16, 0, 1), FlexRamBanks(0, 9, 8),
     FlexRamBanks(1, 4, 3), FlexRamBanks(0, 4, 4), FlexRamBanks(4, 3, 2),
     FlexRamBanks(1, 2, 1), FlexRamBanks(0, 2, 2), FlexRamBanks(2, 1, 2),
     FlexRamBanks(0, 3, 2), FlexRamBanks(1, 1, 1), FlexRamBanks(0, 2, 1)}

\* Names of override variables and the process environments of the runs.
EnvNames == {"BOARD_STACK", "BOARD_HEAP"}
Environs ==
    {[n \in EnvNames |-> None],
     [n \in EnvNames |-> IF n = "BOARD_STACK" THEN Some(<<"4", "k">>)
                         ELSE Some(<<"1", "0", "2", "4">>)]}

\* The processes a build script runs in.
Host(environ, feature_device, overflow_checks) ==
    [environ |-> environ, feature_device |-> feature_device,
     overflow_checks |-> overflow_checks]
Hosts ==
    {Host(environ, feature_device, overflow_checks) :
        environ \in Environs, feature_device \in BOOLEAN,
        overflow_checks \in BOOLEAN}
\* A process with no variable set, compiled with overflow checks.
PlainHost == Host([n \in EnvNames |-> None], FALSE, TRUE)
\* No file has been written.
NoFiles == << >>
\* No image has been linked: the processor is not running.
NoTarget == << >>

(***************************************************************************)
(* The build script as a state machine: construct a builder, call setters, *)
(* write the linker script.                                                *)
(***************************************************************************)
NoBuilder == [family |-> "none"]
NoResult == [status |-> "None", err |-> NoError, output |-> << >>, stdout |-> << >>]
NoEnc == [family |-> "none"]
NoCheck == [ok |-> FALSE, err |-> [msg |-> "not checked"]]

Init ==
    /\ pc = "new"
    /\ b = NoBuilder
    /\ calls = 0
    /\ result = NoResult
    /\ checked = NoCheck
    /\ enc = NoEnc
    /\ host \in Hosts
    /\ files = NoFiles
    /\ target = NoTarget

Construct(bldr) ==
    /\ pc = "new"
    /\ b' = bldr
    /\ pc' = "configured"
    /\ UNCHANGED <<calls, result, checked, enc, host, files, target>>

FromFlexspi ==
    \E family \in Family, flash_size \in FlashSizeArgs :
        Construct(from_flexspi(family, flash_size))

InFlash ==
    \E family \in Family, partition_size \in PartitionSizeArgs,
       partition_offset \in OffsetArgs :
        Construct(in_flash(family, partition_size, partition_offset))

FromRam ==
    \E family \in Family : Construct(from_ram(family))

Setter(bldr) ==
    /\ pc = "configured"
    /\ calls < MaxSetters
    /\ b' = bldr
    /\ calls' = calls + 1
    /\ UNCHANGED <<pc, result, checked, enc, host, files, target>>

CallFlexramBanks ==
    \E flexram_banks \in BanksArgs : Setter(set_flexram_banks(b, flexram_banks))

CallFlexramLayout ==
    \E flexram_layout \in ShortLayoutArgs :
        Setter(set_flexram_layout(b, flexram_layout))

CallSection ==
    \E sec \in Sections, memory \in Memory : Setter(set_section(b, sec, memory))

CallFlexspi ==
    \E peripheral \in FlexSpi : Setter(set_flexspi(b, peripheral))

CallBootHeader ==
    \E boot_header \in BOOLEAN : Setter(set_boot_header(b, boot_header))

WriteLinkerScript ==
    /\ pc = "configured"
    /\ result' = write_linker_script(b, host.environ, host.feature_device,
                                     host.overflow_checks)
    /\ pc' = "written"
    /\ UNCHANGED <<b, calls, checked, enc, host, files, target>>

Next ==
    \/ FromFlexspi
    \/ InFlash
    \/ FromRam
    \/ CallFlexramBanks
    \/ CallFlexramLayout
    \/ CallSection
    \/ CallFlexspi
    \/ CallBootHeader
    \/ WriteLinkerScript

Spec == Init /\ [][Next]_vars

(***************************************************************************)
(* The encoder alone: a family and a bank allocation or a layout are       *)
(* drawn, and flexram_config is applied to them.                           *)
(***************************************************************************)
BankCountTriples ==
    {FlexRamBanks(o, d, i) : o \in 0..MaxBanksArg, d \in 0..MaxBanksArg,
                             i \in 0..MaxBanksArg}

EncInputs ==
    {[family |-> f, banks |-> Some(t), layout |-> << >>, done |-> FALSE,
      out |-> Returned(Zero32)] : f \in Family, t \in BankCountTriples}
    \cup
    {[family |-> f, banks |-> None, layout |-> l, done |-> FALSE,
      out |-> Returned(Zero32)] :
        f \in Family, l \in LayoutArgs \cup {default_flexram_layout(g) : g \in Family}}

InitEnc ==
    /\ pc = "encoder"
    /\ b = NoBuilder
    /\ calls = 0
    /\ result = NoResult
    /\ checked = NoCheck
    /\ enc \in EncInputs
    /\ host = PlainHost
    /\ files = NoFiles
    /\ target = NoTarget

\* flexram_config(family, &banks.to_flexram_layout())
EncodeBanks ==
    /\ pc = "encoder"
    /\ ~enc.done
    /\ IsSome(enc.banks)
    /\ enc' = [enc EXCEPT !.layout = to_flexram_layout(Unwrap(enc.banks)),
                          !.done = TRUE,
                          !.out = flexram_config(enc.family,
                                     to_flexram_layout(Unwrap(enc.banks)))]
    /\ UNCHANGED <<pc, b, calls, result, checked, host, files, target>>

\* flexram_config(family, &layout)
EncodeLayout ==
    /\ pc = "encoder"
    /\ ~enc.done
    /\ ~IsSome(enc.banks)
    /\ enc' = [enc EXCEPT !.done = TRUE,
                          !.out = flexram_config(enc.family, enc.layout)]
    /\ UNCHANGED <<pc, b, calls, result, checked, host, files, target>>

NextEnc == EncodeBanks \/ EncodeLayout

SpecEnc == InitEnc /\ [][NextEnc]_vars

(***************************************************************************)
(* The validator alone: a builder is drawn from the builders the setters   *)
(* can produce, and check_configurations is applied to it.                 *)
(***************************************************************************)
\* The builders as the constructors return them.
Constructed ==
    {from_flexspi(f, s) : f \in Family, s \in FlashSizeArgs}
    \cup {in_flash(f, s, o) : f \in Family, s \in PartitionSizeArgs, o \in OffsetArgs}
    \cup {from_ram(f) : f \in Family}

\* One builder of each construction mode and family.
CheckBases ==
    {from_flexspi(f, 16 * 1024 * 1024) : f \in Family}
    \cup {in_flash(f, s, o) : f \in Family, s \in PartitionSizeArgs, o \in OffsetArgs}
    \cup {from_ram(f) : f \in Family}

\* Layouts given to the validator: the default one, those of BanksArgs, and
\* every free-form layout that fits, or exceeds by one, the smallest family.
CheckLayouts(family) ==
    {default_flexram_layout(family)}
    \cup {to_flexram_layout(k) : k \in BanksArgs}
    \cup LayoutsUpTo(flexram_bank_count("Imxrt1180") + 1)

RECURSIVE PlaceInFlash(_, _)
\* The builder after sec(Memory::Flash) for every section of the set.
PlaceInFlash(bldr, secs) ==
    IF secs = {} THEN bldr
    ELSE LET sec == CHOOSE x \in secs : TRUE
         IN  PlaceInFlash(set_section(bldr, sec, "Flash"), secs \ {sec})

\* Sets of sections placed in flash: any of the six restricted ones.
Restricted == {"data", "vectors", "bss", "uninit", "stack", "heap"}
FlashPlacements == SUBSET Restricted

\* The builder of the validator run: x.flexram_layout(l).flexspi(p) and then
\* sec(Memory::Flash) for the sections of secs.
CheckInput(x, l, p, secs) ==
    PlaceInFlash(set_flexspi(set_flexram_layout(x, l), p), secs)

InitCheck ==
    /\ pc = "validator"
    /\ \E x \in CheckBases, p \in FlexSpi, secs \in FlashPlacements :
         \E l \in CheckLayouts(x.family) : b = CheckInput(x, l, p, secs)
    /\ calls = 0
    /\ result = NoResult
    /\ checked = NoCheck
    /\ enc = NoEnc
    /\ host = PlainHost
    /\ files = NoFiles
    /\ target = NoTarget

CheckConfigurations ==
    /\ pc = "validator"
    /\ checked = NoCheck
    /\ checked' = check_configurations(b)
    /\ UNCHANGED <<pc, b, calls, result, enc, host, files, target>>

NextCheck == CheckConfigurations

SpecCheck == InitCheck /\ [][NextCheck]_vars

(***************************************************************************)
(* The configuration phase alone: a builder is constructed and any of its  *)
(* setters is called, MaxSetters + 1 times at most.                        *)
(***************************************************************************)
\* Byte counts given to stack_size and heap_size.
SizeArgs == {0, 4096, 8 * 1024}
\* Names given to linker_script_name and device_script_name.
ScriptNameArgs == {DEFAULT_LINKER_SCRIPT_NAME, DEFAULT_DEVICE_SCRIPT_NAME, "t4link.x"}
\* Bank layouts given to the setters of the configuration phase.
\* the defaults of the families, the board's allocation, and an empty layout.
CfgBanksArgs ==
    {default_flexram_banks(f) : f \in Family} \cup {FlexRamBanks(0, 12, 4)}
CfgLayoutArgs == {default_flexram_layout(f) : f \in Family} \cup {<< >>}

InitCfg ==
    /\ pc = "new"
    /\ b = NoBuilder
    /\ calls = 0
    /\ result = NoResult
    /\ checked = NoCheck
    /\ enc = NoEnc
    /\ host = PlainHost
    /\ files = NoFiles
    /\ target = NoTarget

Configure(bldr) ==
    /\ pc = "configured"
    /\ calls < MaxSetters + 1
    /\ b' = bldr
    /\ calls' = calls + 1
    /\ UNCHANGED <<pc, result, checked, enc, host, files, target>>

CfgFlexramBanks ==
    \E flexram_banks \in CfgBanksArgs :
        Configure(set_flexram_banks(b, flexram_banks))

CfgFlexramLayout ==
    \E flexram_layout \in CfgLayoutArgs :
        Configure(set_flexram_layout(b, flexram_layout))

CfgSection ==
    \E sec \in Sections, memory \in Memory : Configure(set_section(b, sec, memory))

CfgStackSize == \E bytes \in SizeArgs : Configure(set_stack_size(b, bytes))

CfgStackSizeEnvOverride ==
    \E key \in EnvNames : Configure(set_stack_size_env_override(b, key))

CfgHeapSize == \E bytes \in SizeArgs : Configure(set_heap_size(b, bytes))

CfgHeapSizeEnvOverride ==
    \E key \in EnvNames : Configure(set_heap_size_env_override(b, key))

CfgFlexspi == \E peripheral \in FlexSpi : Configure(set_flexspi(b, peripheral))

CfgBootHeader ==
    \E boot_header \in BOOLEAN : Configure(set_boot_header(b, boot_header))

CfgLinkerScriptName ==
    \E name \in ScriptNameArgs : Configure(set_linker_script_name(b, name))

CfgDeviceScriptName ==
    \E name \in ScriptNameArgs : Configure(set_device_script_name(b, name))

NextCfg ==
    \/ FromFlexspi
    \/ InFlash
    \/ FromRam
    \/ CfgFlexramBanks
    \/ CfgFlexramLayout
    \/ CfgSection
    \/ CfgStackSize
    \/ CfgStackSizeEnvOverride
    \/ CfgHeapSize
    \/ CfgHeapSizeEnvOverride
    \/ CfgFlexspi
    \/ CfgBootHeader
    \/ CfgLinkerScriptName
    \/ CfgDeviceScriptName

SpecCfg == InitCfg /\ [][NextCfg]_vars

(***************************************************************************)
(* The validator on builders that differ in the fields it does not read:   *)
(* flash size and offset, sizes of stack and heap, and the placement of    *)
(* any one section in any region.                                          *)
(***************************************************************************)
ValidOffsets == OffsetArgs \cup {Zero32, U32(Limb - 1, Limb - 1)}

ValidBases ==
    {from_flexspi(f, s) : f \in Family, s \in FlashSizeArgs}
    \cup {in_flash(f, s, o) :
            f \in Family, s \in PartitionSizeArgs \cup {0}, o \in ValidOffsets}
    \cup {from_ram(f) : f \in Family}

\* The default layout, no bank at all, every bank in one role, and one bank
\* more than the family has.
ValidLayouts(family) ==
    {default_flexram_layout(family), << >>,
     Rep("Ocram", flexram_bank_count(family)),
     Rep("Dtcm", flexram_bank_count(family)),
     Rep("Itcm", flexram_bank_count(family) + 1)}

\* Stack and heap sizes given together.
ValidSizes == {<<8 * 1024, 0>>, <<0, 0>>, <<4096, 4096>>}

\* x.flexram_layout(l).flexspi(p).sec(memory).stack_size(..).heap_size(..)
ValidInput(x, l, p, sec, memory, sizes) ==
    set_heap_size(
        set_stack_size(
            set_section(set_flexspi(set_flexram_layout(x, l), p), sec, memory),
            sizes[1]),
        sizes[2])

InitValid ==
    /\ pc = "validator"
    /\ \E x \in ValidBases, p \in FlexSpi, sec \in Sections, memory \in Memory,
          sizes \in ValidSizes :
         \E l \in ValidLayouts(x.family) :
            b = ValidInput(x, l, p, sec, memory, sizes)
    /\ calls = 0
    /\ result = NoResult
    /\ checked = NoCheck
    /\ enc = NoEnc
    /\ host = PlainHost
    /\ files = NoFiles
    /\ target = NoTarget

NextValid == CheckConfigurations

SpecValid == InitValid /\ [][NextValid]_vars

(***************************************************************************)
(* Generation under many environments: a builder of each construction     *)
(* mode gets sizes and override names, and the script is written or built. *)
(***************************************************************************)
\* Texts of override variables.
Text4096 == <<"4", "0", "9", "6">>
Text4k == <<"4", "k">>
Text4K == <<"4", "K">>
Text0 == <<"0">>
Text1024 == <<"1", "0", "2", "4">>
TextPlus8 == <<"+", "8">>
TextEmpty == << >>
TextK == <<"k">>
TextNegative == <<"-", "1">>
Text4kb == <<"4", "k", "b">>
Text4SpaceK == <<"4", " ", "k">>
\* 2^64: one more than the largest usize.
TextTooLarge == <<"1", "8", "4", "4", "6", "7", "4", "4", "0", "7", "3", "7", "0", "9", "5", "5", "1", "6", "1", "6">>
\* (2^54 - 1) k: the largest kilo count that fits usize.
TextLargestK == <<"1", "8", "0", "1", "4", "3", "9", "8", "5", "0", "9", "4", "8", "1", "9", "8", "3", "k">>
\* 2^54 k = 2^64 bytes.
TextOverflowK == <<"1", "8", "0", "1", "4", "3", "9", "8", "5", "0", "9", "4", "8", "1", "9", "8", "4", "k">>
TextNotUnicode == <<InvalidUnicode>>

EnvTexts ==
    {Text4096, Text4k, Text4K, Text0, TextPlus8, TextEmpty, TextK, TextNegative,
     Text4kb, Text4SpaceK, TextTooLarge, TextLargestK, TextOverflowK,
     TextNotUnicode}

\* Environments of the generation runs: BOARD_STACK unset or any of the
\* texts, BOARD_HEAP unset or "1024", OUT_DIR set.
GenEnvirons ==
    {[n \in EnvNames \cup {"OUT_DIR"} |->
        IF n = "BOARD_STACK" THEN v
        ELSE IF n = "BOARD_HEAP" THEN w
        ELSE Some(<<"o", "u", "t">>)] :
        v \in {None} \cup {Some(t) : t \in EnvTexts},
        w \in {None, Some(Text1024)}}

GenHost(environ, feature_device, overflow_checks, fs_writable) ==
    [environ |-> environ, feature_device |-> feature_device,
     overflow_checks |-> overflow_checks, fs_writable |-> fs_writable]

GenHosts ==
    {GenHost(environ, FALSE, overflow_checks, TRUE) :
        environ \in GenEnvirons, overflow_checks \in BOOLEAN}

\* One builder of each construction mode.
GenBases ==
    {from_ram("Imxrt1010"), from_flexspi("Imxrt1064", 16 * 1024 * 1024),
     in_flash("Imxrt1180", 256 * 1024, ToU32(256 * 1024))}

InitGen ==
    /\ pc = "new"
    /\ b = NoBuilder
    /\ calls = 0
    /\ result = NoResult
    /\ checked = NoCheck
    /\ enc = NoEnc
    /\ host \in GenHosts
    /\ files = NoFiles
    /\ target = NoTarget

GenConstruct == \E bldr \in GenBases : Construct(bldr)

Build ==
    /\ pc = "configured"
    /\ result' = build(b, host.environ, host.feature_device,
                       host.overflow_checks, host.fs_writable)
    /\ files' = IF IsSome(result'.written)
                THEN fs_write(files, Unwrap(result'.written), result'.output)
                ELSE files
    /\ pc' = "built"
    /\ UNCHANGED <<b, calls, checked, enc, host, target>>

NextGen ==
    \/ GenConstruct
    \/ CfgStackSize
    \/ CfgStackSizeEnvOverride
    \/ CfgHeapSize
    \/ CfgHeapSizeEnvOverride
    \/ WriteLinkerScript
    \/ Build

SpecGen == InitGen /\ [][NextGen]_vars

(***************************************************************************)
(* Generation run twice: the builder is configured, then the script is     *)
(* written twice, or built twice, in the same process environment.         *)
(***************************************************************************)
OutDir == <<"o", "u", "t">>

\* OUT_DIR set or unset; BOARD_STACK unset, "4k" or "k"; BOARD_HEAP unset.
BuildEnvirons ==
    {[n \in EnvNames \cup {"OUT_DIR"} |->
        IF n = "BOARD_STACK" THEN v
        ELSE IF n = "BOARD_HEAP" THEN None
        ELSE d] :
        v \in {None, Some(Text4k), Some(TextK)},
        d \in {None, Some(OutDir)}}

BuildHosts ==
    {GenHost(environ, feature_device, TRUE, fs_writable) :
        environ \in BuildEnvirons, feature_device \in BOOLEAN,
        fs_writable \in BOOLEAN}

\* The output directory is empty, or holds a script of an earlier build.
StaleFiles ==
    [p \in {<<OutDir, DEFAULT_LINKER_SCRIPT_NAME>>} |->
        <<[line |-> "blob", file |-> "stale"]>>]

BuildBases == GenBases \cup {from_flexspi("Imxrt1180", 0)}

\* No bank at all, and more banks than any family has.
BuildLayoutArgs == {<< >>, Rep("Ocram", MaxBanksArg + 1)}

InitBuild ==
    /\ pc = "new"
    /\ b = NoBuilder
    /\ calls = 0
    /\ result = NoResult
    /\ checked = NoCheck
    /\ enc = NoEnc
    /\ host \in BuildHosts
    /\ files \in {NoFiles, StaleFiles}
    /\ target = NoTarget

BuildConstruct == \E bldr \in BuildBases : Construct(bldr)

BuildFlexramLayout ==
    \E flexram_layout \in BuildLayoutArgs :
        Configure(set_flexram_layout(b, flexram_layout))

\* A second write_linker_script on the same builder.
WriteAgain ==
    /\ pc = "written"
    /\ result' = write_linker_script(b, host.environ, host.feature_device,
                                     host.overflow_checks)
    /\ pc' = "written twice"
    /\ UNCHANGED <<b, calls, checked, enc, host, files, target>>

\* A second build on the same builder.
BuildAgain ==
    /\ pc = "built"
    /\ result' = build(b, host.environ, host.feature_device,
                       host.overflow_checks, host.fs_writable)
    /\ files' = IF IsSome(result'.written)
                THEN fs_write(files, Unwrap(result'.written), result'.output)
                ELSE files
    /\ pc' = "built twice"
    /\ UNCHANGED <<b, calls, checked, enc, host, target>>

NextBuild ==
    \/ BuildConstruct
    \/ BuildFlexramLayout
    \/ CfgStackSizeEnvOverride
    \/ CfgLinkerScriptName
    \/ WriteLinkerScript
    \/ WriteAgain
    \/ Build
    \/ BuildAgain

SpecBuild == InitBuild /\ [][NextBuild]_vars

(***************************************************************************)
(* The memory map: builders of every family and construction mode with     *)
(* every bank count of each role, either FlexSPI, the boot header on or    *)
(* off, and partition offsets up to the largest one are written.           *)
(***************************************************************************)
MapOffsets == OffsetArgs \cup {U32(Limb - 1, Limb - 1)}

MapBases ==
    {from_flexspi(f, 16 * 1024 * 1024) : f \in Family}
    \cup {in_flash(f, s, o) : f \in Family, s \in PartitionSizeArgs, o \in MapOffsets}
    \cup {from_ram(f) : f \in Family}

\* Every count of one role beside none or one bank of each other role.
MapBanksArgs ==
    UNION {{FlexRamBanks(n, k, k), FlexRamBanks(k, n, k), FlexRamBanks(k, k, n)} :
            n \in 0..MaxBanksArg, k \in {0, 1}}

\* x.flexram_banks(k).flexspi(p).boot_header(h)
MapInput(x, k, p, h) ==
    set_boot_header(set_flexspi(set_flexram_banks(x, k), p), h)

MapHosts ==
    {Host([n \in EnvNames |-> None], FALSE, overflow_checks) :
        overflow_checks \in BOOLEAN}

InitMap ==
    /\ pc = "configured"
    /\ \E x \in MapBases, k \in MapBanksArgs, p \in FlexSpi, h \in BOOLEAN :
         b \in {MapInput(x, k, p, h), set_boot_header(set_flexspi(x, p), h)}
    /\ calls = 0
    /\ result = NoResult
    /\ checked = NoCheck
    /\ enc = NoEnc
    /\ host \in MapHosts
    /\ files = NoFiles
    /\ target = NoTarget

NextMap == WriteLinkerScript

SpecMap == InitMap /\ [][NextMap]_vars

(***************************************************************************)
(* The target: __pre_init running on the linked image.                     *)
(*                                                                         *)
(* The linker gives __pre_init its symbols.  A section's bounds are as the *)
(* linker script lays them out: word-aligned, the end not below the start. *)
(* The load address of a section equals its execution address, or lies in  *)
(* flash.                                                                  *)
(***************************************************************************)
\* The sections the linker gives a load address and an execution address.
LinkedSections == {"text", "vector_table", "rodata", "data"}

StartOf(sec) ==
    CASE sec = "text" -> "__stext"
      [] sec = "vector_table" -> "__svector_table"
      [] sec = "rodata" -> "__srodata"
      [] sec = "data" -> "__sdata"

LoadOf(sec) ==
    CASE sec = "text" -> "__sitext"
      [] sec = "vector_table" -> "__sivector_table"
      [] sec = "rodata" -> "__sirodata"
      [] sec = "data" -> "__sidata"

EndOf(sec) ==
    CASE sec = "text" -> "__etext"
      [] sec = "vector_table" -> "__evector_table"
      [] sec = "rodata" -> "__erodata"
      [] sec = "data" -> "__edata"

Symbols ==
    {"__imxrt_family", "__flexram_config"}
    \cup {StartOf(sec) : sec \in LinkedSections}
    \cup {LoadOf(sec) : sec \in LinkedSections}
    \cup {EndOf(sec) : sec \in LinkedSections}

\* ptr + n on a 32-bit register (n < 2^16).
Plus(ptr, n) == U32Add(ptr, U32(0, n)).val

\* Where the sections of the images execute: text in ITCM at 0x0000_0400,
\* the vector table in DTCM at 0x2000_0000, read-only data in OCRAM at
\* 0x2020_0000, data in DTCM at 0x2000_0400.
ExecStart(sec) ==
    CASE sec = "text" -> U32(0, 1024)
      [] sec = "vector_table" -> U32(8192, 0)
      [] sec = "rodata" -> U32(8224, 0)
      [] sec = "data" -> U32(8192, 1024)

\* Where they are stored in flash: from 0x6000_2000 on, 0x400 apart.
FlashStart(sec) ==
    CASE sec = "vector_table" -> U32(24576, 8192)
      [] sec = "text" -> U32(24576, 9216)
      [] sec = "rodata" -> U32(24576, 10240)
      [] sec = "data" -> U32(24576, 11264)

\* A placement: how many words each section has, and which sections are
\* loaded in flash away from where they execute.  The mutable data, which
\* __pre_init never looks at, has one word, loaded in flash.
Placements ==
    [words : {w \in [LinkedSections -> 0..MaxWords] : w["data"] = 1},
     flash : {f \in SUBSET LinkedSections : "data" \in f}]

\* The symbols of an image of the family: the family identifier and the
\* bank-role word as the script emitted them, the bounds of the sections.
Image(family, placement) ==
    [sym \in Symbols |->
        IF sym = "__imxrt_family" THEN ToU32(id(family))
        ELSE IF sym = "__flexram_config"
        THEN flexram_config(family, default_flexram_layout(family)).val
        ELSE LET sec == CHOOSE x \in LinkedSections :
                            sym \in {StartOf(x), LoadOf(x), EndOf(x)}
             IN  IF sym = StartOf(sec) THEN ExecStart(sec)
                 ELSE IF sym = EndOf(sec)
                 THEN Plus(ExecStart(sec), 4 * placement.words[sec])
                 ELSE IF sec \in placement.flash THEN FlashStart(sec)
                 ELSE ExecStart(sec)]

\* The registers of the peripherals __pre_init touches.
RTWDOG_11xx == U32(16387, 32768)      \* 0x4003_8000
RTWDOG_10xx == U32(16395, 49152)      \* 0x400B_C000
RTWDOG_MAGIC == U32(55592, 50464)     \* 0xD928_C520
IOMUXC_GPR_10xx == U32(16394, 49152)  \* 0x400A_C000
IOMUXC_GPR_11xx == U32(16398, 16384)  \* 0x400E_4000
GPR16(base) == Plus(base, 64)
GPR17(base) == Plus(base, 68)
GPR18(base) == Plus(base, 72)

DeviceRegisters ==
    UNION {{base, Plus(base, 4)} : base \in {RTWDOG_10xx, RTWDOG_11xx}}
    \cup UNION {{GPR16(base), GPR17(base), GPR18(base)} :
                    base \in {IOMUXC_GPR_10xx, IOMUXC_GPR_11xx}}

\* The words of the sections, at their load and at their execution
\* addresses, and the word past the end of each.
SectionWords ==
    UNION {{Plus(ExecStart(sec), 4 * k), Plus(FlashStart(sec), 4 * k)} :
              sec \in LinkedSections, k \in 0..MaxWords}

\* The memory out of reset: the watchdog enabled, the words of flash
\* pairwise different, RAM zero.
ResetMem ==
    [a \in DeviceRegisters \cup SectionWords |->
        IF a \in {RTWDOG_10xx, RTWDOG_11xx} THEN U32(0, 10624)
        ELSE IF a.hi = 24576 THEN U32(61861, a.lo)
        ELSE Zero32]

\* `bic r, r, #1<<7` and `orr r, r, #1<<2` on a 32-bit register.
BitClear7(r) == U32(r.hi, r.lo - (IF (r.lo \div 128) % 2 = 1 THEN 128 ELSE 0))
OrBit2(r) == U32(r.hi, BitOr(r.lo, 4))

\* `str value, [address]`: the memory after the store, and the store.
Store(t, address, value) ==
    [t EXCEPT !.mem = [a \in DOMAIN t.mem \cup {address} |->
                          IF a = address THEN value ELSE t.mem[a]],
              !.stores = Append(@, <<address, value>>)]

\* `ldr value, [address]`.
Load(t, address) ==
    IF address \in DOMAIN t.mem THEN t.mem[address] ELSE Zero32

SetReg(t, r, value) == [t EXCEPT !.regs[r] = value]

Registers == {"r0", "r1", "r2", "r3"}

\* The families of the images: one of each arrangement of banks.
TargetFamilies ==
    {"Imxrt1010", "Imxrt1020", "Imxrt1060", "Imxrt1160", "Imxrt1170",
     "Imxrt1180"}

\* The processor leaves reset on a linked image.
InitTarget ==
    /\ pc = "reset"
    /\ b = NoBuilder
    /\ calls = 0
    /\ result = NoResult
    /\ checked = NoCheck
    /\ enc = NoEnc
    /\ host = PlainHost
    /\ files = NoFiles
    /\ \E family \in TargetFamilies, placement \in Placements :
          target = [image |-> Image(family, placement),
                    regs |-> [r \in Registers |-> Zero32],
                    eq |-> FALSE,
                    mem |-> ResetMem,
                    stores |-> << >>]

\* Lines 43-55: the family test, and the watchdog disabled.
DisableWatchdog ==
    /\ pc = "reset"
    /\ LET family == target.image["__imxrt_family"]
           is1170 == family = U32(0, 1170)
           base == IF is1170 THEN RTWDOG_11xx ELSE RTWDOG_10xx
           t1 == Store(target, Plus(base, 4), RTWDOG_MAGIC)
           cs == BitClear7(Load(t1, base))
           t2 == Store(t1, base, cs)
       IN  target' = [t2 EXCEPT !.eq = is1170,
                                !.regs = [r \in Registers |->
                                            CASE r = "r0" -> family
                                              [] r = "r1" -> U32(0, 1170)
                                              [] r = "r2" -> base
                                              [] r = "r3" -> cs]]
    /\ pc' = "flexram"
    /\ UNCHANGED <<b, calls, result, checked, enc, host, files>>

\* Lines 58-68: the bank-role word written, the configuration enabled.
PrepareFlexram ==
    /\ pc = "flexram"
    /\ LET config == target.image["__flexram_config"]
           base == IF target.eq THEN IOMUXC_GPR_11xx ELSE IOMUXC_GPR_10xx
           upper == U32(0, config.hi)
           lower == IF target.eq THEN U32(0, config.lo) ELSE config
           t1 == IF target.eq THEN Store(target, GPR18(base), upper)
                 ELSE target
           t2 == Store(t1, GPR17(base), lower)
           enabled == OrBit2(Load(t2, GPR16(base)))
           t3 == Store(t2, GPR16(base), enabled)
       IN  target' = [t3 EXCEPT !.regs = [r \in Registers |->
                                            CASE r = "r0" -> base
                                              [] r = "r1" -> enabled
                                              [] r = "r2" ->
                                                   IF target.eq THEN upper
                                                   ELSE target.regs["r2"]
                                              [] r = "r3" -> target.regs["r3"]]]
    /\ pc' = "copy text"
    /\ UNCHANGED <<b, calls, result, checked, enc, host, files>>

\* The sections __pre_init copies, in its order.
CopyOrder == <<"text", "vector_table", "rodata">>

CopyAt(sec) ==
    CASE sec = "text" -> "copy text"
      [] sec = "vector_table" -> "copy vector_table"
      [] sec = "rodata" -> "copy rodata"

LoopAt(sec) ==
    CASE sec = "text" -> "loop text"
      [] sec = "vector_table" -> "loop vector_table"
      [] sec = "rodata" -> "loop rodata"

\* Where the labels 42, 52 and 62 lead.
After(sec) ==
    CASE sec = "text" -> CopyAt("vector_table")
      [] sec = "vector_table" -> CopyAt("rodata")
      [] sec = "rodata" -> "return"

\* The copy never skipped.
CopySkipped_Never(load, exec) == FALSE

\* `cmp r2, r0; beq`: no copy when the section is loaded where it executes.
CopySkipped(load, exec) == load = exec

\* `cmp r1, r0; beq`: the loop is left when the execution pointer is the end.
CopyDone(end, exec) == end = exec

\* `ldm r2!, {r3}` and `stm r0!, {r3}`: the pointer after the word.
NextWord(ptr) == Plus(ptr, 4)

\* Lines 71-76, 86-91, 101-106: the start of the copy of a section.
CopyStart(sec) ==
    /\ pc = CopyAt(sec)
    /\ LET exec == target.image[StartOf(sec)]
           load == target.image[LoadOf(sec)]
           t1 == SetReg(SetReg(target, "r0", exec), "r2", load)
       IN  IF CopySkipped(load, exec)
           THEN /\ target' = t1
                /\ pc' = After(sec)
           ELSE /\ target' = SetReg(t1, "r1", target.image[EndOf(sec)])
                /\ pc' = LoopAt(sec)
    /\ UNCHANGED <<b, calls, result, checked, enc, host, files>>

\* Lines 77-82, 92-97, 107-112: one turn of the loop.
CopyWord(sec) ==
    /\ pc = LoopAt(sec)
    /\ IF CopyDone(target.regs["r1"], target.regs["r0"])
       THEN /\ pc' = After(sec)
            /\ target' = target
       ELSE /\ LET word == Load(target, target.regs["r2"])
                   t1 == SetReg(SetReg(target, "r3", word), "r2",
                                NextWord(target.regs["r2"]))
                   t2 == Store(t1, target.regs["r0"], word)
               IN  target' = SetReg(t2, "r0", NextWord(target.regs["r0"]))
            /\ pc' = pc
    /\ UNCHANGED <<b, calls, result, checked, enc, host, files>>

\* Line 116: back to the reset handler.
Return ==
    /\ pc = "return"
    /\ pc' = "returned"
    /\ UNCHANGED <<b, calls, result, checked, enc, host, files, target>>

NextTarget ==
    \/ DisableWatchdog
    \/ PrepareFlexram
    \/ \E sec \in LinkedSections \ {"data"} : CopyStart(sec)
    \/ \E sec \in LinkedSections \ {"data"} : CopyWord(sec)
    \/ Return

\* The processor keeps executing instructions until __pre_init returns.
SpecTarget == InitTarget /\ [][NextTarget]_vars /\ WF_vars(NextTarget)

(***************************************************************************)
(* Properties of the encoder (checked under SpecEnc).                      *)
(***************************************************************************)
\* The two-bit field of bank i (bank 0 in bits 0-1) of a 32-bit word.
Field(w, i) ==
    IF i < 8 THEN (w.lo \div 4^i) % 4 ELSE (w.hi \div 4^(i - 8)) % 4

\* How many of the sixteen two-bit fields of a word hold the code.
CountFields(w, code) == Cardinality({i \in 0..15 : Field(w, i) = code})

\* The field of bank i in the canonical layout of a bank allocation.
CanonicalField(banks, i) ==
    IF i < banks.ocram THEN 1
    ELSE IF i < banks.ocram + banks.dtcm THEN 2
    ELSE IF i < banks.ocram + banks.dtcm + banks.itcm THEN 3
    ELSE 0

\* The encoder ran on a bank allocation that fits the family.
EncodedFittingBanks ==
    /\ pc = "encoder"
    /\ enc.done
    /\ IsSome(enc.banks)
    /\ Unwrap(enc.banks).ocram + Unwrap(enc.banks).dtcm + Unwrap(enc.banks).itcm
         <= flexram_bank_count(enc.family)

\* C1, as stated: for every family and every (ocram, dtcm, itcm) that fits
\* it, the word of the canonical layout has `ocram` fields of 1 from bit 0,
\* then `dtcm` fields of 2, then `itcm` fields of 3, and 0 in every other
\* field.
C1_CanonicalFields_AllFamilies ==
    EncodedFittingBanks =>
        /\ ~enc.out.panic
        /\ \A i \in 0..15 :
             Field(enc.out.val, i) = CanonicalField(Unwrap(enc.banks), i)

\* C1, amended: the same for every family other than Imxrt1180.  For
\* Imxrt1180 the word is not built from fields: (dtcm 1, itcm 1) gives 0b00,
\* (itcm 2) gives 0b10, (dtcm 2) gives 0b01, and every other allocation that
\* fits the two banks makes the encoder panic.
C1_CanonicalFields ==
    /\ (EncodedFittingBanks /\ enc.family # "Imxrt1180") =>
          /\ ~enc.out.panic
          /\ \A i \in 0..15 :
               Field(enc.out.val, i) = CanonicalField(Unwrap(enc.banks), i)
    /\ (EncodedFittingBanks /\ enc.family = "Imxrt1180") =>
          enc.out =
            CASE Unwrap(enc.banks) = FlexRamBanks(0, 1, 1) -> Returned(U32(0, 0))
              [] Unwrap(enc.banks) = FlexRamBanks(0, 0, 2) -> Returned(U32(0, 2))
              [] Unwrap(enc.banks) = FlexRamBanks(0, 2, 0) -> Returned(U32(0, 1))
              [] OTHER -> Panicked("Unsupported FlexRAM configuration")

\* The 16-bank example: (ocram 1, dtcm 1, itcm 14) gives 0xFFFFFFF9.
C1_Witness ==
    /\ EncodedFittingBanks
    /\ enc.family = "Imxrt1170"
    /\ Unwrap(enc.banks) = FlexRamBanks(1, 1, 14)
    /\ enc.out = Returned(U32(65535, 65529))

\* C2, as stated: for every family and every fitting (ocram, dtcm, itcm),
\* counting the fields equal to 1, 2 and 3 in the encoded word gives back
\* (ocram, dtcm, itcm).
C2_RoundTrip_AllFamilies ==
    EncodedFittingBanks =>
        /\ ~enc.out.panic
        /\ CountFields(enc.out.val, 1) = Unwrap(enc.banks).ocram
        /\ CountFields(enc.out.val, 2) = Unwrap(enc.banks).dtcm
        /\ CountFields(enc.out.val, 3) = Unwrap(enc.banks).itcm

\* C2, amended: the round trip holds for every family other than Imxrt1180.
C2_RoundTrip ==
    (EncodedFittingBanks /\ enc.family # "Imxrt1180") =>
        /\ ~enc.out.panic
        /\ CountFields(enc.out.val, 1) = Unwrap(enc.banks).ocram
        /\ CountFields(enc.out.val, 2) = Unwrap(enc.banks).dtcm
        /\ CountFields(enc.out.val, 3) = Unwrap(enc.banks).itcm

\* A round trip with all three roles present on an 8-bank family.
C2_Witness ==
    /\ EncodedFittingBanks
    /\ enc.family = "Imxrt1020"
    /\ Unwrap(enc.banks) = FlexRamBanks(3, 2, 3)
    /\ CountFields(enc.out.val, 1) = 3
    /\ CountFields(enc.out.val, 2) = 2
    /\ CountFields(enc.out.val, 3) = 3

\* The encoder ran for Imxrt1180 on a layout with these role counts.
Encoded1180(itcm, dtcm, ocram) ==
    /\ pc = "encoder"
    /\ enc.done
    /\ enc.family = "Imxrt1180"
    /\ Len(enc.layout) <= 2
    /\ layout_count_of("Itcm", enc.layout) = itcm
    /\ layout_count_of("Dtcm", enc.layout) = dtcm
    /\ layout_count_of("Ocram", enc.layout) = ocram

\* C7: for Imxrt1180, 1 ITCM + 1 DTCM encodes as 0b00 in either order of
\* the entries, 2 ITCM as 0b10 and 2 DTCM as 0b01, and 0b00 is the code of
\* the family's default layout.
C7_FixedCodes1180 ==
    /\ Encoded1180(1, 1, 0) => enc.out = Returned(U32(0, 0))
    /\ Encoded1180(2, 0, 0) => enc.out = Returned(U32(0, 2))
    /\ Encoded1180(0, 2, 0) => enc.out = Returned(U32(0, 1))
    /\ flexram_config("Imxrt1180", default_flexram_layout("Imxrt1180"))
         = Returned(U32(0, 0))

\* DTCM before ITCM, the reverse of the default layout, still encodes 0b00.
C7_Witness ==
    /\ Encoded1180(1, 1, 0)
    /\ enc.layout = <<"Dtcm", "Itcm">>
    /\ enc.out = Returned(U32(0, 0))

(***************************************************************************)
(* Properties of the builder's life cycle (checked under Spec).            *)
(***************************************************************************)
\* write_linker_script has run on an unmodified from_flexspi builder.
WroteDefaultFromFlexspi ==
    /\ pc = "written"
    /\ \E f \in Family, size \in FlashSizeArgs : b = from_flexspi(f, size)

\* C3: for every family and flash size, the unmodified from_flexspi builder
\* passes validation (its layout fits, it has the OCRAM banks the boot ROM
\* needs, its FlexSPI is supported, no restricted section is in flash) and
\* write_linker_script succeeds.
C3_DefaultFromFlexspiValid ==
    WroteDefaultFromFlexspi =>
        /\ Len(b.flexram_layout) <= flexram_bank_count(b.family)
        /\ layout_count_of("Ocram", b.flexram_layout) >= bootrom_ocram_banks(b.family)
        /\ IsSome(flexspi_start_addr(b.family, Unwrap(b.flash_opts).flexspi))
        /\ \A sec \in {"data", "vectors", "bss", "uninit", "stack", "heap"} :
             b[sec] # "Flash"
        /\ result.status = "Ok"
        /\ result.err = NoError
        /\ Len(result.output) > 0

\* The two-bank family with a flash of size 0 writes its script.
C3_Witness ==
    /\ WroteDefaultFromFlexspi
    /\ b.family = "Imxrt1180"
    /\ Unwrap(b.flash_opts).size = 0
    /\ result.status = "Ok"

\* C4: for every family and construction mode, a default builder on which
\* only one of data, vectors, bss, uninit, stack, heap was set to Flash
\* fails validation with the error that names that section.
C4_FlashSectionNamed ==
    \A sec \in {"data", "vectors", "bss", "uninit", "stack", "heap"} :
        (/\ pc = "written"
         /\ \E x \in Constructed : b = [x EXCEPT ![sec] = "Flash"])
        => /\ result.status = "Err"
           /\ result.err.msg = "Section cannot be placed in flash"
           /\ result.err.section = sec
           /\ result.output = << >>

\* A RAM runtime with its heap in flash is refused, naming the heap.
C4_Witness ==
    /\ pc = "written"
    /\ b = [from_ram("Imxrt1060") EXCEPT !.heap = "Flash"]
    /\ result.status = "Err"
    /\ result.err = [msg |-> "Section cannot be placed in flash", section |-> "heap"]

\* C6, as stated: for Imxrt1180, every layout of at most two entries whose
\* (itcm, dtcm, ocram) counts are none of (1,1,0), (2,0,0), (0,2,0) is
\* refused by validation with an error value.
C6_Invalid1180Rejected ==
    (/\ pc = "written"
     /\ b.family = "Imxrt1180"
     /\ Len(b.flexram_layout) <= 2
     /\ <<layout_count_of("Itcm", b.flexram_layout),
          layout_count_of("Dtcm", b.flexram_layout),
          layout_count_of("Ocram", b.flexram_layout)>>
          \notin {<<1, 1, 0>>, <<2, 0, 0>>, <<0, 2, 0>>})
    => result.status = "Err"

(***************************************************************************)
(* Properties of the validator (checked under SpecCheck).                  *)
(***************************************************************************)
Checked == pc = "validator" /\ checked # NoCheck

\* The texts of the four kinds of validation error.
MsgTooManyBanks == "Chip only has total FlexRAM banks. Cannot allocate"
MsgBootRom == "Chip requires at least OCRAM banks for the bootloader ROM"
MsgFlexSpi == "Chip does not support"
MsgSection == "Section cannot be placed in flash"

\* What each check refuses.
TooManyBanks == Len(b.flexram_layout) > flexram_bank_count(b.family)
TooFewOcram ==
    layout_count_of("Ocram", b.flexram_layout) < bootrom_ocram_banks(b.family)
UnsupportedFlexSpi ==
    /\ IsSome(b.flash_opts)
    /\ ~IsSome(flexspi_start_addr(b.family, Unwrap(b.flash_opts).flexspi))
PlacedInFlash(sec) == b[sec] = "Flash"
AnyInFlash ==
    \E sec \in {"data", "vectors", "bss", "uninit", "stack", "heap"} : PlacedInFlash(sec)

\* C5: a layout with more entries than the family has banks fails
\* validation, whatever the entries are (Unused ones count) and whatever the
\* other fields of the builder are.
C5_TooManyBanksRejected ==
    (Checked /\ TooManyBanks) => ~checked.ok

\* Three entries, one of them Unused, on the two-bank family.
C5_Witness ==
    /\ Checked
    /\ b.family = "Imxrt1180"
    /\ b.flexram_layout = <<"Itcm", "Unused", "Dtcm">>
    /\ ~checked.ok
    /\ checked.err.msg = MsgTooManyBanks
    /\ checked.err.len = 3

\* C8: the checks run in the order bank count, boot-ROM OCRAM banks,
\* FlexSPI support, then data, vectors, bss, uninit, stack, heap in flash,
\* and the error returned is that of the first check that fails.
C8_FirstFailureWins ==
    Checked =>
        /\ TooManyBanks => checked.err.msg = MsgTooManyBanks
        /\ (~TooManyBanks /\ TooFewOcram) => checked.err.msg = MsgBootRom
        /\ (~TooManyBanks /\ ~TooFewOcram /\ UnsupportedFlexSpi)
             => checked.err.msg = MsgFlexSpi
        /\ (~TooManyBanks /\ ~TooFewOcram /\ ~UnsupportedFlexSpi /\ AnyInFlash)
             => /\ checked.err.msg = MsgSection
                /\ LET order == <<"data", "vectors", "bss", "uninit", "stack", "heap">>
                       first == CHOOSE i \in 1..6 :
                                  /\ PlacedInFlash(order[i])
                                  /\ \A j \in 1..(i - 1) : ~PlacedInFlash(order[j])
                   IN  checked.err.section = order[first]
        /\ (~TooManyBanks /\ ~TooFewOcram /\ ~UnsupportedFlexSpi /\ ~AnyInFlash)
             => checked = CheckOk
        /\ checked.ok <=> checked.err = NoError

\* A builder that fails every check is refused for its bank count.
C8_Witness ==
    /\ Checked
    /\ TooManyBanks
    /\ TooFewOcram
    /\ UnsupportedFlexSpi
    /\ \A sec \in {"data", "vectors", "bss", "uninit", "stack", "heap"} : PlacedInFlash(sec)
    /\ checked.err.msg = MsgTooManyBanks

\* C9: with flash options and every other check passing, validation fails,
\* naming the family and the interface, exactly for FlexSpi2 on Imxrt1010,
\* Imxrt1015, Imxrt1020 and Imxrt1050; a from_ram builder never fails the
\* FlexSPI check.
C9_FlexSpiSupport ==
    Checked =>
        /\ (IsSome(b.flash_opts) /\ ~TooManyBanks /\ ~TooFewOcram /\ ~AnyInFlash)
             => IF /\ Unwrap(b.flash_opts).flexspi = "FlexSpi2"
                   /\ b.family \in {"Imxrt1010", "Imxrt1015", "Imxrt1020", "Imxrt1050"}
                THEN checked = CheckErr([msg |-> MsgFlexSpi, family |-> b.family,
                                         flexspi |-> "FlexSpi2"])
                ELSE checked = CheckOk
        /\ ~IsSome(b.flash_opts) => checked.err.msg # MsgFlexSpi

\* FlexSpi2 on Imxrt1050 is refused.
C9_Witness ==
    /\ Checked
    /\ b.family = "Imxrt1050"
    /\ IsSome(b.flash_opts)
    /\ Unwrap(b.flash_opts).flexspi = "FlexSpi2"
    /\ checked.err = [msg |-> MsgFlexSpi, family |-> "Imxrt1050", flexspi |-> "FlexSpi2"]

\* C10: for a layout that fits the family, validation fails with the
\* boot-ROM error exactly when the layout has fewer OCRAM entries than the
\* family's minimum: 1 for Imxrt1010, 1015, 1020, 1040, 1050 and 0 for
\* Imxrt1060, 1064, 1160, 1170, 1180.
C10_BootRomOcram ==
    (Checked /\ ~TooManyBanks) =>
        LET minimum == IF b.family \in {"Imxrt1010", "Imxrt1015", "Imxrt1020",
                                        "Imxrt1040", "Imxrt1050"}
                       THEN 1 ELSE 0
        IN  /\ bootrom_ocram_banks(b.family) = minimum
            /\ (checked.err.msg = MsgBootRom)
                 <=> (layout_count_of("Ocram", b.flexram_layout) < minimum)
            /\ (checked.err.msg = MsgBootRom)
                 => (~checked.ok /\ checked.err.min = minimum
                     /\ checked.err.family = b.family)

\* Twelve DTCM and four ITCM banks, no OCRAM, are refused on Imxrt1040.
C10_Witness ==
    /\ Checked
    /\ b.family = "Imxrt1040"
    /\ b.flexram_layout = to_flexram_layout(FlexRamBanks(0, 12, 4))
    /\ checked.err.msg = MsgBootRom

(***************************************************************************)
(* Properties of the configuration phase (checked under SpecCfg).          *)
(***************************************************************************)
\* The step changes nothing of the builder but, when flash options are
\* present, the named field of the flash options.
FlashOptsFrame(field) ==
    IF IsSome(b.flash_opts)
    THEN /\ IsSome(b'.flash_opts)
         /\ [b' EXCEPT !.flash_opts = None] = [b EXCEPT !.flash_opts = None]
         /\ \A other \in {"size", "offset", "flexspi", "boot_header"} \ {field} :
              Unwrap(b'.flash_opts)[other] = Unwrap(b.flash_opts)[other]
    ELSE b' = b

\* C11: on a builder without flash options every flexspi() and boot_header()
\* call, wherever it comes in the setter sequence, leaves every field as it
\* was (flash options stay absent); on a builder with flash options the call
\* changes the flexspi, respectively boot_header, field of the flash options
\* and nothing else.
C11_FlashSettersFrame ==
    [][/\ CfgFlexspi => FlashOptsFrame("flexspi")
       /\ CfgBootHeader => FlashOptsFrame("boot_header")]_vars

\* from_ram(Imxrt1170) followed by flexspi(..) and boot_header(..): the
\* builder is still the one from_ram returned.
C11_Witness ==
    /\ pc = "configured"
    /\ calls = MaxSetters + 1
    /\ b = from_ram("Imxrt1170")
    /\ ~IsSome(b.flash_opts)

\* The resolved sizes of two overrides are the same under every environment:
\* they are the same override, or they are read and give the same result.
SameResolution(ov1, ov2) ==
    \/ ov1 = ov2
    \/ \A environ \in Environs, overflow_checks \in BOOLEAN :
          EnvOverride_read(ov1, environ, overflow_checks)
            = EnvOverride_read(ov2, environ, overflow_checks)

\* C12: whenever stack_size(x) is called on a builder, calling
\* stack_size_env_override(k) next gives, for every name k, the same builder
\* and the same resolved stack size under every environment as calling
\* stack_size_env_override(k) first and stack_size(x) second; likewise for
\* heap_size and heap_size_env_override.
C12_SizeAndNameCommute ==
    [][/\ CfgStackSize =>
            \A key \in EnvNames :
                /\ set_stack_size_env_override(b', key)
                     = set_stack_size(set_stack_size_env_override(b, key),
                                      b'.stack_size.default)
                /\ SameResolution(
                      set_stack_size_env_override(b', key).stack_size,
                      set_stack_size(set_stack_size_env_override(b, key),
                                     b'.stack_size.default).stack_size)
       /\ CfgHeapSize =>
            \A key \in EnvNames :
                /\ set_heap_size_env_override(b', key)
                     = set_heap_size(set_heap_size_env_override(b, key),
                                     b'.heap_size.default)
                /\ SameResolution(
                      set_heap_size_env_override(b', key).heap_size,
                      set_heap_size(set_heap_size_env_override(b, key),
                                    b'.heap_size.default).heap_size)]_vars

\* A builder on which both a stack size and a stack override name were set.
C12_Witness ==
    /\ pc = "configured"
    /\ calls = 2
    /\ b.stack_size = [default |-> 4096, env |-> Some("BOARD_STACK")]
    /\ b = set_stack_size_env_override(
              set_stack_size(from_ram(b.family), 4096), "BOARD_STACK")
    /\ b = set_stack_size(
              set_stack_size_env_override(from_ram(b.family), "BOARD_STACK"), 4096)
(***************************************************************************)
(* Properties of size resolution (checked under SpecGen).                  *)
(***************************************************************************)
Generated == pc \in {"written", "built"}

\* The values the script assigns to a symbol.
SymbolValues(lines, name) ==
    {lines[i].value : i \in {j \in 1..Len(lines) : lines[j].line = name}}

\* What the environment holds under the name an override carries.
LastNamed(ov) ==
    IF IsSome(ov.env) /\ Unwrap(ov.env) \in DOMAIN host.environ
    THEN host.environ[Unwrap(ov.env)]
    ELSE None

\* Texts that are a decimal number, or one followed by k or K, and the byte
\* counts they stand for.
PlainTexts == {Text4096, Text4k, Text4K, Text0, Text1024}
TextSize(text) ==
    CASE text = Text4096 -> ToUsize(4096)
      [] text = Text4k -> ToUsize(4 * 1024)
      [] text = Text4K -> ToUsize(4 * 1024)
      [] text = Text0 -> ToUsize(0)
      [] text = Text1024 -> ToUsize(1024)

\* C13: when override names are assigned one after the other, the builder
\* carries the last one only (the default is kept), and generation resolves
\* the size from that name alone: the number its variable holds when it is
\* set, the default when it is unset, whatever the variable of an earlier
\* name holds.
C13_LastNameWins ==
    /\ pc = "configured" =>
         \A first \in EnvNames, last \in EnvNames :
            /\ set_stack_size_env_override(
                   set_stack_size_env_override(b, first), last)
                 = [b EXCEPT !.stack_size =
                      [default |-> b.stack_size.default, env |-> Some(last)]]
            /\ set_heap_size_env_override(
                   set_heap_size_env_override(b, first), last)
                 = [b EXCEPT !.heap_size =
                      [default |-> b.heap_size.default, env |-> Some(last)]]
    /\ Generated =>
            /\ LastNamed(b.stack_size) = None =>
                 SymbolValues(result.output, "__stack_size")
                    = {ToUsize(b.stack_size.default)}
            /\ \A t \in PlainTexts :
                 LastNamed(b.stack_size) = Some(t) =>
                    SymbolValues(result.output, "__stack_size") = {TextSize(t)}
            /\ result.status = "Ok" /\ LastNamed(b.heap_size) = None =>
                 SymbolValues(result.output, "__heap_size")
                    = {ToUsize(b.heap_size.default)}
            /\ \A t \in PlainTexts :
                 result.status = "Ok" /\ LastNamed(b.heap_size) = Some(t) =>
                    SymbolValues(result.output, "__heap_size") = {TextSize(t)}

\* The stack got the name BOARD_STACK and then BOARD_HEAP; BOARD_STACK holds
\* "4k", BOARD_HEAP is unset, and the script has the default stack size.
C13_Witness ==
    /\ pc = "written"
    /\ calls = 2
    /\ b = set_stack_size_env_override(
               set_stack_size_env_override(from_ram("Imxrt1010"), "BOARD_STACK"),
               "BOARD_HEAP")
    /\ host.environ["BOARD_STACK"] = Some(Text4k)
    /\ host.environ["BOARD_HEAP"] = None
    /\ result.status = "Ok"
    /\ SymbolValues(result.output, "__stack_size") = {ToUsize(8192)}

\* Texts that are a number n that fits usize followed by k or K, and the
\* product n * 1024 as a number in 16-bit limbs, least significant first.
KiloTexts == {Text4k, Text4K, TextLargestK, TextOverflowK}
KiloProduct(text) ==
    CASE text = Text4k -> <<4096, 0, 0, 0>>
      [] text = Text4K -> <<4096, 0, 0, 0>>
      [] text = TextLargestK -> <<Limb - 1024, Limb - 1, Limb - 1, Limb - 1>>
      [] text = TextOverflowK -> <<0, 0, 0, 0, 1>>

\* C14: the stack size resolves to the default when no name is assigned or
\* the variable is unset, to n when the variable holds the decimal text of n,
\* and to n * 1024 when it holds n followed by k or K, for every n that fits
\* usize.
C14_ResolvedSize ==
    Generated =>
        /\ LastNamed(b.stack_size) = None =>
              SymbolValues(result.output, "__stack_size")
                 = {ToUsize(b.stack_size.default)}
        /\ \A t \in {Text4096, Text0, Text1024} :
              LastNamed(b.stack_size) = Some(t) =>
                 SymbolValues(result.output, "__stack_size") = {TextSize(t)}
        /\ \A t \in KiloTexts :
              LastNamed(b.stack_size) = Some(t) =>
                 SymbolValues(result.output, "__stack_size") = {KiloProduct(t)}

\* Values that are neither a number nor a number followed by k or K.
UnparsableTexts ==
    {TextEmpty, TextK, TextNegative, Text4kb, Text4SpaceK, TextNotUnicode}

\* C15: when the consulted variable holds a value that is neither a number
\* nor a number followed by k or K, write_linker_script and build fail with
\* the parse error, and no size is emitted in place of the value.
C15_UnparsableIsError ==
    Generated =>
        \A t \in UnparsableTexts :
            /\ LastNamed(b.stack_size) = Some(t) =>
                  /\ result.status = "Err"
                  /\ result.err = ErrParse
                  /\ SymbolValues(result.output, "__stack_size") = {}
            /\ LastNamed(b.heap_size) = Some(t) =>
                  /\ result.status = "Err"
                  /\ result.err = ErrParse
                  /\ SymbolValues(result.output, "__heap_size") = {}

(***************************************************************************)
(* Properties of the load aliases (checked under Spec).                    *)
(***************************************************************************)
\* The regions the script gives to an alias.
AliasPlacements(lines, name) ==
    {lines[i].placement :
        i \in {j \in 1..Len(lines) :
                  lines[j].line = "REGION_ALIAS" /\ lines[j].name = name}}

\* Each load alias with the alias of the region its section executes from.
LoadAliases ==
    {<<"LOAD_VTABLE", "VTABLE">>, <<"LOAD_TEXT", "TEXT">>,
     <<"LOAD_RODATA", "RODATA">>, <<"LOAD_DATA", "DATA">>}

\* C16: in every script emitted with success each of the four load aliases is
\* defined once; with flash options all four are FLASH, without them each is
\* the region of its execution alias.
C16_LoadAliases ==
    pc = "written" /\ result.status = "Ok" =>
        \A pair \in LoadAliases :
            /\ Cardinality(AliasPlacements(result.output, pair[2])) = 1
            /\ AliasPlacements(result.output, pair[1])
                 = IF IsSome(b.flash_opts)
                   THEN {"FLASH"}
                   ELSE AliasPlacements(result.output, pair[2])

\* A script for a builder without flash options whose text executes from
\* ITCM and loads from ITCM.
C16_Witness ==
    /\ pc = "written"
    /\ result.status = "Ok"
    /\ b.flash_opts = None
    /\ b.text = "Itcm"
    /\ AliasPlacements(result.output, "LOAD_TEXT") = {"ITCM"}
    /\ AliasPlacements(result.output, "LOAD_DATA") = {"OCRAM"}

(***************************************************************************)
(* Properties of the constructors (checked under SpecCfg).                 *)
(***************************************************************************)
\* A builder as its constructor returned it.
Fresh == pc = "configured" /\ calls = 0

\* C17: a builder returned by any of the three constructors has, in every
\* field other than the flash options, the documented values: the default
\* layout of its family, whose counts per role are the family's default
\* banks, the default placements, sizes without override names and script
\* names.  Each setter called with the documented value returns the builder
\* unchanged.
C17_SeededDefaults ==
    Fresh =>
        /\ [b EXCEPT !.flash_opts = None]
             = [family |-> b.family,
                flexram_layout |-> default_flexram_layout(b.family),
                text |-> "Itcm",
                rodata |-> "Ocram",
                data |-> "Ocram",
                vectors |-> "Dtcm",
                bss |-> "Ocram",
                uninit |-> "Ocram",
                stack |-> "Dtcm",
                stack_size |-> [default |-> 8192, env |-> None],
                heap |-> "Dtcm",
                heap_size |-> [default |-> 0, env |-> None],
                flash_opts |-> None,
                linker_script_name |-> "imxrt-link.x",
                device_script_name |-> "device.x"]
        /\ layout_count_of("Ocram", b.flexram_layout)
             = default_flexram_banks(b.family).ocram
        /\ layout_count_of("Dtcm", b.flexram_layout)
             = default_flexram_banks(b.family).dtcm
        /\ layout_count_of("Itcm", b.flexram_layout)
             = default_flexram_banks(b.family).itcm
        /\ layout_count_of("Unused", b.flexram_layout) = 0
        /\ set_flexram_layout(b, default_flexram_layout(b.family)) = b
        /\ set_section(b, "text", "Itcm") = b
        /\ set_section(b, "rodata", "Ocram") = b
        /\ set_section(b, "data", "Ocram") = b
        /\ set_section(b, "vectors", "Dtcm") = b
        /\ set_section(b, "bss", "Ocram") = b
        /\ set_section(b, "uninit", "Ocram") = b
        /\ set_section(b, "stack", "Dtcm") = b
        /\ set_section(b, "heap", "Dtcm") = b
        /\ set_stack_size(b, 8 * 1024) = b
        /\ set_heap_size(b, 0) = b
        /\ set_linker_script_name(b, "imxrt-link.x") = b
        /\ set_device_script_name(b, "device.x") = b

\* The builder in_flash returned for the Imxrt1060.
C17_Witness ==
    /\ Fresh
    /\ b.family = "Imxrt1060"
    /\ IsSome(b.flash_opts)
    /\ ~Unwrap(b.flash_opts).boot_header
    /\ b.flexram_layout = default_flexram_layout("Imxrt1060")

\* The FlexSPI the constructors choose for a family.
SeededFlexSpi(family) == IF family = "Imxrt1064" THEN "FlexSpi2" ELSE "FlexSpi1"

\* C18: from_flexspi seeds flash options with the given size, offset 0, the
\* boot header enabled and FlexSpi2 for the Imxrt1064, FlexSpi1 for any other
\* family; in_flash seeds the given size and offset with the header disabled
\* and the same FlexSPI, and boot_header(true) then enables the header;
\* from_ram seeds none, and no setter makes absent flash options present.
C18_FlashSeeding ==
    [][/\ pc = "new" =>
            /\ FromFlexspi =>
                  \A flash_size \in FlashSizeArgs :
                      b' = from_flexspi(b'.family, flash_size) =>
                          b'.flash_opts
                            = Some([size |-> flash_size, offset |-> Zero32,
                                    flexspi |-> SeededFlexSpi(b'.family),
                                    boot_header |-> TRUE])
            /\ InFlash =>
                  \A partition_size \in PartitionSizeArgs,
                     partition_offset \in OffsetArgs :
                      b' = in_flash(b'.family, partition_size, partition_offset) =>
                          /\ b'.flash_opts
                               = Some([size |-> partition_size,
                                       offset |-> partition_offset,
                                       flexspi |-> SeededFlexSpi(b'.family),
                                       boot_header |-> FALSE])
                          /\ set_boot_header(b', TRUE).flash_opts
                               = Some([size |-> partition_size,
                                       offset |-> partition_offset,
                                       flexspi |-> SeededFlexSpi(b'.family),
                                       boot_header |-> TRUE])
            /\ FromRam => b'.flash_opts = None
       /\ pc = "configured" /\ b.flash_opts = None => b'.flash_opts = None]_vars

\* in_flash for the Imxrt1064, then boot_header(true): the header is enabled
\* on FlexSpi2 at the partition's offset.
C18_Witness ==
    /\ pc = "configured"
    /\ calls = 1
    /\ b.family = "Imxrt1064"
    /\ b = set_boot_header(in_flash("Imxrt1064", 256 * 1024, ToU32(256 * 1024)), TRUE)
    /\ b.flash_opts = Some([size |-> 256 * 1024, offset |-> ToU32(256 * 1024),
                            flexspi |-> "FlexSpi2", boot_header |-> TRUE])

(***************************************************************************)
(* Properties of the validator's extent (checked under SpecValid).         *)
(***************************************************************************)
\* C19: check_configurations passes exactly when the layout fits the bank
\* count, the OCRAM count meets the boot ROM's minimum, the FlexSPI of the
\* flash options, if any, is supported, and none of data, vectors, bss,
\* uninit, stack, heap is in Flash; no other field of the builder (flash size
\* and offset, stack and heap size, the regions of text and rodata, the
\* number of banks of a section's region) decides the result.
C19_FourChecksOnly ==
    Checked =>
        (checked.ok <=>
            ~TooManyBanks /\ ~TooFewOcram /\ ~UnsupportedFlexSpi /\ ~AnyInFlash)

\* A builder with a flash size of zero, text in Flash, no bank at all, a
\* stack of zero bytes, that passes.
C19_Witness ==
    /\ Checked
    /\ checked.ok
    /\ IsSome(b.flash_opts)
    /\ Unwrap(b.flash_opts).size = 0
    /\ Unwrap(b.flash_opts).offset = U32(Limb - 1, Limb - 1)
    /\ b.text = "Flash"
    /\ b.flexram_layout = << >>
    /\ b.stack = "Dtcm"
    /\ b.stack_size.default = 0

ArtifactPath == <<Unwrap(host.environ["OUT_DIR"]), b.linker_script_name>>

\* C21: a build that does not succeed leaves the files as they were; a
\* builder that fails validation gets the validation error before anything
\* of the script is produced, an override that fails to parse gets the parse
\* error, and in both cases no file is created or changed.  A build that
\* succeeds leaves the whole script, up to its last fragment, in the file.
C21_ArtifactAllOrNothing ==
    [][(pc = "configured" /\ Build) \/ (pc = "built" /\ BuildAgain) =>
         /\ result'.status # "Ok" => files' = files /\ result'.written = None
         /\ IsSome(host.environ["OUT_DIR"]) /\ ~check_configurations(b).ok =>
               /\ result'.status = "Err"
               /\ result'.err = check_configurations(b).err
               /\ result'.output = << >>
         /\ result'.status = "Ok" =>
               /\ DOMAIN files' = DOMAIN files \cup {ArtifactPath}
               /\ files'[ArtifactPath] = result'.output
               /\ result'.output[Len(result'.output)]
                    = [line |-> "blob", file |-> "host/imxrt-link.x"]
               /\ \A p \in DOMAIN files \ {ArtifactPath} : files'[p] = files[p]]_vars

\* A build that ended with the parse error while the output directory held
\* the script of an earlier build: the file still holds that script.
C21_Witness ==
    /\ pc = "built"
    /\ result.status = "Err"
    /\ result.err = ErrParse
    /\ result.output # << >>
    /\ files = StaleFiles

(***************************************************************************)
(* Properties of the re-run declarations (checked under SpecGen).          *)
(***************************************************************************)
IsRerun(printed) == printed.line = "cargo:rerun-if-env-changed"

\* The re-run declarations among the printed lines, in order.
Reruns(printed) == SelectSeq(printed, IsRerun)

\* The declaration the resolution of a size prints.
Declaration(ov) ==
    IF IsSome(ov.env)
    THEN <<[line |-> "cargo:rerun-if-env-changed", env |-> Unwrap(ov.env)]>>
    ELSE << >>

\* The stack size is resolved once the section aliases are written, the heap
\* size once the stack size is written.
StackResolved == AliasPlacements(result.output, "HEAP") # {}
HeapResolved == SymbolValues(result.output, "__stack_size") # {}

\* C22: constructors and setters print nothing.  A generation prints, for
\* each size it resolves, one re-run declaration with the name the size
\* carries, the last one assigned, whether or not the variable is set, and
\* none when the size carries no name; it prints no other declaration.
C22_RerunDeclarations ==
    /\ pc \in {"new", "configured"} => result = NoResult
    /\ Generated =>
          /\ StackResolved
          /\ Reruns(result.stdout)
               = Declaration(b.stack_size)
                 \o (IF HeapResolved THEN Declaration(b.heap_size) ELSE << >>)

\* The stack size got the name BOARD_STACK and then BOARD_HEAP, the heap
\* size no name; BOARD_STACK is set and BOARD_HEAP is not: the one
\* declaration names BOARD_HEAP.
C22_Witness ==
    /\ pc = "written"
    /\ calls = 2
    /\ b = set_stack_size_env_override(
               set_stack_size_env_override(from_ram("Imxrt1010"), "BOARD_STACK"),
               "BOARD_HEAP")
    /\ IsSome(host.environ["BOARD_STACK"])
    /\ host.environ["BOARD_HEAP"] = None
    /\ HeapResolved
    /\ result.stdout
         = <<[line |-> "cargo:rerun-if-env-changed", env |-> "BOARD_HEAP"]>>

(***************************************************************************)
(* Properties of the memory map (checked under SpecMap).                   *)
(***************************************************************************)
\* The blocks of a name in the script.
Blocks(lines, name) ==
    {lines[i] : i \in {j \in 1..Len(lines) : lines[j].line = name}}

\* start + offset as a number: its low 16 bits, and everything above them.
OriginSum(start, offset) ==
    [hi |-> start.hi + offset.hi + ((start.lo + offset.lo) \div Limb),
     lo |-> (start.lo + offset.lo) % Limb]

\* C23: a builder with flash options that passes validation gets a script
\* with one FLASH block, whose ORIGIN is the start address of its FlexSPI
\* plus its offset, a 32-bit address, and whose LENGTH is its size, for any
\* offset; a builder without flash options gets no FLASH block.
C23_FlashBlock ==
    pc = "written" =>
        /\ IsSome(b.flash_opts) /\ check_configurations(b).ok =>
              LET flash_opts == Unwrap(b.flash_opts)
                  sum == OriginSum(
                             Unwrap(start_address(flash_opts.flexspi, b.family)),
                             flash_opts.offset)
              IN  /\ sum.hi < Limb
                  /\ Blocks(result.output, "FLASH")
                       = {[line |-> "FLASH", origin |-> sum,
                           length |-> flash_opts.size]}
        /\ b.flash_opts = None => Blocks(result.output, "FLASH") = {}

\* The MEMORY command was written to its end.
MapWritten == pc = "written" /\ Blocks(result.output, "}") # {}

\* Start and size of ITCM for a number of banks.
ItcmBlock(family, itcm_banks) ==
    IF family = "Imxrt1180"
    THEN <<256 * 1024 * 1024 - itcm_banks * flexram_bank_size(family),
           itcm_banks * flexram_bank_size(family)>>
    ELSE <<32, IF itcm_banks * flexram_bank_size(family) > 32
               THEN itcm_banks * flexram_bank_size(family) - 32
               ELSE 0>>

\* C24: the MEMORY command has an ITCM block exactly when the layout has an
\* Itcm bank, a DTCM block exactly when it has a Dtcm bank, and an OCRAM block
\* exactly when the OCRAM banks and the dedicated OCRAM together are not
\* empty.  DTCM starts at 0x20000000 and has the size of its banks, OCRAM
\* starts at ocram_start and has the size of its banks and the dedicated
\* OCRAM, ITCM starts at 32 and has the size of its banks less 32, or, on the
\* Imxrt1180, ends at 0x10000000 and has the size of its banks; the start of
\* ITCM is never zero, for any number of banks the family has.
C24_RamBlocks ==
    /\ pc = "written" =>
          \A n \in 0..flexram_bank_count(b.family) :
              /\ itcm_start_size(b.family, n) = ItcmBlock(b.family, n)
              /\ itcm_start_size(b.family, n)[1] > 0
    /\ MapWritten =>
          LET itcm_banks == layout_count_of("Itcm", b.flexram_layout)
              dtcm_banks == layout_count_of("Dtcm", b.flexram_layout)
              ocram_banks == layout_count_of("Ocram", b.flexram_layout)
              ocram_size == ocram_banks * flexram_bank_size(b.family)
                            + dedicated_ocram_size(b.family)
          IN  /\ Blocks(result.output, "ITCM")
                   = IF itcm_banks > 0
                     THEN {[line |-> "ITCM",
                            origin |-> ItcmBlock(b.family, itcm_banks)[1],
                            length |-> ItcmBlock(b.family, itcm_banks)[2]]}
                     ELSE {}
              /\ Blocks(result.output, "DTCM")
                   = IF dtcm_banks > 0
                     THEN {[line |-> "DTCM", origin |-> 2 * 256 * 1024 * 1024,
                            length |-> dtcm_banks * flexram_bank_size(b.family)]}
                     ELSE {}
              /\ Blocks(result.output, "OCRAM")
                   = IF ocram_size > 0
                     THEN {[line |-> "OCRAM", origin |-> ocram_start(b.family),
                            length |-> ocram_size]}
                     ELSE {}
              /\ dedicated_ocram_size(b.family) > 0
                   => Blocks(result.output, "OCRAM") # {}

\* A script for the Imxrt1180 with two Itcm banks and no other bank: ITCM
\* ends at 0x10000000, there is no DTCM block, and the dedicated OCRAM has
\* its block.
C24_Witness ==
    /\ MapWritten
    /\ result.status = "Ok"
    /\ b.family = "Imxrt1180"
    /\ b.flexram_layout = <<"Itcm", "Itcm">>
    /\ \E block \in Blocks(result.output, "ITCM") :
          block.origin + block.length = 256 * 1024 * 1024 /\ block.length > 0
    /\ Blocks(result.output, "DTCM") = {}
    /\ Blocks(result.output, "OCRAM") # {}

\* The boot header blobs in the script: every blob but the last fragment.
HeaderBlobs(lines) ==
    {blob \in Blocks(lines, "blob") : blob.file # "host/imxrt-link.x"}

\* C25: the script has the __fcb_offset constant exactly when the builder has
\* flash options, and the boot header exactly when it has flash options with
\* the boot-header flag set: the header of the Imxrt1180 for that family,
\* the common one for any other.
C25_FlashOnlyElements ==
    MapWritten =>
        /\ Blocks(result.output, "__fcb_offset")
             = IF IsSome(b.flash_opts)
               THEN {[line |-> "__fcb_offset",
                      value |-> IF b.family \in {"Imxrt1010", "Imxrt1160",
                                                 "Imxrt1170", "Imxrt1180"}
                                THEN 1024 ELSE 0]}
               ELSE {}
        /\ HeaderBlobs(result.output)
             = IF IsSome(b.flash_opts) /\ Unwrap(b.flash_opts).boot_header
               THEN {[line |-> "blob",
                      file |-> IF b.family = "Imxrt1180"
                               THEN "host/imxrt-boot-header-1180.x"
                               ELSE "host/imxrt-boot-header.x"]}
               ELSE {}

\* from_flexspi for the Imxrt1180, then boot_header(false): the script has
\* __fcb_offset and no boot header.
C25_Witness ==
    /\ MapWritten
    /\ result.status = "Ok"
    /\ b = set_boot_header(from_flexspi("Imxrt1180", 16 * 1024 * 1024), FALSE)
    /\ Blocks(result.output, "__fcb_offset")
         = {[line |-> "__fcb_offset", value |-> 1024]}
    /\ HeaderBlobs(result.output) = {}

(***************************************************************************)
(* Properties of the packed bank word (checked under SpecEnc).             *)
(***************************************************************************)
\* The code of a role in the packed word.
RoleCode(kind) ==
    CASE kind = "Unused" -> 0
      [] kind = "Ocram" -> 1
      [] kind = "Dtcm" -> 2
      [] kind = "Itcm" -> 3

\* C26: for a family other than the Imxrt1180 and a layout no longer than
\* the family's bank count, in any order and with Unused entries,
\* flexram_config returns the word whose two-bit field i holds the code of
\* entry i (Unused 0, Ocram 1, Dtcm 2, Itcm 3) and whose other fields are
\* zero.  The default layouts give 0b11100101 (1010, 1015),
\* 0b0101111110100101 (1020), 0x55AFFA55 (1040 to 1064), 0xFFAAFFAA (1160,
\* 1170).
C26_PackedWord ==
    pc = "encoder" /\ enc.done /\ enc.family # "Imxrt1180"
    /\ Len(enc.layout) <= flexram_bank_count(enc.family) =>
        /\ ~enc.out.panic
        /\ \A i \in 0..15 :
              Field(enc.out.val, i)
                = IF i < Len(enc.layout) THEN RoleCode(enc.layout[i + 1]) ELSE 0
        /\ enc.out.val.hi < Limb /\ enc.out.val.lo < Limb
        /\ enc.layout = default_flexram_layout(enc.family) =>
              enc.out.val
                = CASE enc.family \in {"Imxrt1010", "Imxrt1015"} -> U32(0, 229)
                    [] enc.family = "Imxrt1020" -> U32(0, 24485)
                    [] enc.family \in {"Imxrt1040", "Imxrt1050", "Imxrt1060",
                                       "Imxrt1064"} -> U32(21935, 64085)
                    [] enc.family \in {"Imxrt1160", "Imxrt1170"}
                         -> U32(65450, 65450)

\* The layout Itcm, Unused encodes as 3; the same entries in the other order
\* would encode as 12.
C26_Witness ==
    /\ pc = "encoder"
    /\ enc.done
    /\ enc.family = "Imxrt1060"
    /\ enc.banks = None
    /\ enc.layout = <<"Itcm", "Unused">>
    /\ enc.out = Returned(U32(0, 3))
    /\ flexram_config("Imxrt1060", <<"Unused", "Itcm">>) = Returned(U32(0, 12))

(***************************************************************************)
(* Properties of the order of the script (checked under Spec).             *)
(***************************************************************************)
\* What a line of the script is: the alias it defines, the fragment it
\* copies, or the kind of the line.
Element(l) ==
    IF l.line = "REGION_ALIAS" THEN l.name
    ELSE IF l.line = "blob" THEN l.file
    ELSE l.line

Elements(lines) == [i \in 1..Len(lines) |-> Element(lines[i])]

Optional(present, element) == IF present THEN <<element>> ELSE << >>

Occurs(lines, element) == \E i \in 1..Len(lines) : Element(lines[i]) = element

\* C27: a script emitted with success consists of these elements in this
\* order, each once: the header comment, the MEMORY command with FLASH (with
\* flash options only), ITCM, DTCM and OCRAM (those that are emitted),
\* __fcb_offset (with flash options only), the boot header (with flash
\* options and the flag only), the INCLUDE of the device script (with the
\* device feature only), the aliases TEXT, VTABLE, RODATA, DATA, BSS, UNINIT,
\* STACK, HEAP, then __stack_size and __heap_size, the four LOAD_ aliases,
\* __flexram_config, the family identifier, and the fixed fragment last.
C27_ElementOrder ==
    pc = "written" /\ result.status = "Ok" =>
        Elements(result.output)
          = <<"comment", "MEMORY {">>
            \o Optional(IsSome(b.flash_opts), "FLASH")
            \o Optional(Occurs(result.output, "ITCM"), "ITCM")
            \o Optional(Occurs(result.output, "DTCM"), "DTCM")
            \o Optional(Occurs(result.output, "OCRAM"), "OCRAM")
            \o <<"}">>
            \o Optional(IsSome(b.flash_opts), "__fcb_offset")
            \o Optional(IsSome(b.flash_opts) /\ Unwrap(b.flash_opts).boot_header,
                        IF b.family = "Imxrt1180"
                        THEN "host/imxrt-boot-header-1180.x"
                        ELSE "host/imxrt-boot-header.x")
            \o Optional(host.feature_device, "INCLUDE")
            \o <<"TEXT", "VTABLE", "RODATA", "DATA", "BSS", "UNINIT", "STACK",
                 "HEAP", "__stack_size", "__heap_size", "LOAD_VTABLE",
                 "LOAD_TEXT", "LOAD_RODATA", "LOAD_DATA", "__flexram_config",
                 "__imxrt_rt_v0.2", "host/imxrt-link.x">>

\* A script with every element: flash options with the boot header, the
\* device feature, and banks of all three roles.
C27_Witness ==
    /\ pc = "written"
    /\ result.status = "Ok"
    /\ b.family = "Imxrt1060"
    /\ IsSome(b.flash_opts)
    /\ Unwrap(b.flash_opts).boot_header
    /\ host.feature_device
    /\ Len(result.output) = 26
    /\ Element(result.output[3]) = "FLASH"
    /\ Element(result.output[9]) = "INCLUDE"
    /\ Element(result.output[26]) = "host/imxrt-link.x"

(***************************************************************************)
(* Properties of the setters (checked under SpecCfg).                      *)
(***************************************************************************)
\* A call of a setter: its name and its argument.
SetterCall(name, value) == [name |-> name, value |-> value]

SetterCalls ==
    {SetterCall("flexram_banks", k) : k \in CfgBanksArgs}
    \cup {SetterCall("flexram_layout", l) : l \in CfgLayoutArgs}
    \cup {SetterCall(sec, memory) : sec \in Sections, memory \in Memory}
    \cup {SetterCall(n, bytes) : n \in {"stack_size", "heap_size"}, bytes \in SizeArgs}
    \cup {SetterCall(n, key) :
            n \in {"stack_size_env_override", "heap_size_env_override"},
            key \in EnvNames}
    \cup {SetterCall("flexspi", peripheral) : peripheral \in FlexSpi}
    \cup {SetterCall("boot_header", flag) : flag \in BOOLEAN}
    \cup {SetterCall(n, name) :
            n \in {"linker_script_name", "device_script_name"},
            name \in ScriptNameArgs}

\* The builder after the call.
Apply(bldr, call) ==
    CASE call.name = "flexram_banks" -> set_flexram_banks(bldr, call.value)
      [] call.name = "flexram_layout" -> set_flexram_layout(bldr, call.value)
      [] call.name \in Sections -> set_section(bldr, call.name, call.value)
      [] call.name = "stack_size" -> set_stack_size(bldr, call.value)
      [] call.name = "heap_size" -> set_heap_size(bldr, call.value)
      [] call.name = "stack_size_env_override"
           -> set_stack_size_env_override(bldr, call.value)
      [] call.name = "heap_size_env_override"
           -> set_heap_size_env_override(bldr, call.value)
      [] call.name = "flexspi" -> set_flexspi(bldr, call.value)
      [] call.name = "boot_header" -> set_boot_header(bldr, call.value)
      [] call.name = "linker_script_name"
           -> set_linker_script_name(bldr, call.value)
      [] call.name = "device_script_name"
           -> set_device_script_name(bldr, call.value)

\* The field of the builder a setter assigns.
OwnField(call) ==
    CASE call.name \in {"flexram_banks", "flexram_layout"} -> "flexram_layout"
      [] call.name \in {"stack_size", "stack_size_env_override"} -> "stack_size"
      [] call.name \in {"heap_size", "heap_size_env_override"} -> "heap_size"
      [] call.name \in {"flexspi", "boot_header"} -> "flash_opts"
      [] OTHER -> call.name

\* The fields in which two builders differ.
Differing(x, y) == {f \in DOMAIN x : x[f] # y[f]}

\* One or two arguments of each setter.
CommutingCalls ==
    {SetterCall("flexram_banks", FlexRamBanks(0, 12, 4)),
     SetterCall("flexram_layout", << >>),
     SetterCall("flexspi", "FlexSpi2"),
     SetterCall("boot_header", FALSE),
     SetterCall("stack_size", 4096),
     SetterCall("heap_size", 4096),
     SetterCall("stack_size_env_override", "BOARD_STACK"),
     SetterCall("heap_size_env_override", "BOARD_STACK"),
     SetterCall("linker_script_name", "t4link.x"),
     SetterCall("device_script_name", "t4link.x")}
    \cup {SetterCall(sec, memory) : sec \in Sections, memory \in {"Flash", "Ocram"}}

\* C28: a setter changes its own field at most, whatever the builder is,
\* valid or not, and the builder it returns is again a builder every setter
\* accepts; a step of the configuration changes one field at most.  Setters
\* of different fields commute, so the builder that validation and emission
\* read does not depend on the order of the calls.
C28_SetterFrame ==
    /\ [][pc = "configured" /\ pc' = "configured" =>
            Cardinality(Differing(b, b')) <= 1 /\ DOMAIN b' = DOMAIN b]_vars
    /\ [](pc = "configured" /\ calls <= 1 =>
            /\ \A call \in SetterCalls :
                  /\ Differing(b, Apply(b, call)) \subseteq {OwnField(call)}
                  /\ DOMAIN Apply(b, call) = DOMAIN b
            /\ \A c1 \in CommutingCalls, c2 \in CommutingCalls :
                  OwnField(c1) # OwnField(c2) =>
                      Apply(Apply(b, c1), c2) = Apply(Apply(b, c2), c1))

\* The empty layout made the Imxrt1010 builder invalid; the next setter put
\* data in Flash all the same.
C28_Witness ==
    /\ pc = "configured"
    /\ calls = 2
    /\ b = set_section(set_flexram_layout(from_ram("Imxrt1010"), << >>),
                       "data", "Flash")
    /\ ~check_configurations(set_flexram_layout(from_ram("Imxrt1010"), << >>)).ok
    /\ ~check_configurations(b).ok

(***************************************************************************)
(* Properties of the startup copy (checked under SpecTarget).              *)
(***************************************************************************)
\* An address below 2^31 as a natural number.
ToNat(u) == u.hi * Limb + u.lo

\* The stores a copy of the section makes: none when it is loaded where it
\* executes, else (end - start) / 4 words, word k of the load region to
\* word k of the execution region.
SectionCopy(image, sec) ==
    LET exec == image[StartOf(sec)]
        load == image[LoadOf(sec)]
        words == (ToNat(image[EndOf(sec)]) - ToNat(exec)) \div 4
    IN  IF load = exec THEN << >>
        ELSE [k \in 1..words |->
                <<Plus(exec, 4 * (k - 1)), ResetMem[Plus(load, 4 * (k - 1))]>>]

\* The stores made outside the registers of the peripherals.
CopyStores(t) == SelectSeq(t.stores, LAMBDA st : st[1] \notin DeviceRegisters)

IsPrefix(x, y) == Len(x) <= Len(y) /\ SubSeq(y, 1, Len(x)) = x

\* The stores of the three copies, in the order of __pre_init.
CopiesOfPreInit(image) ==
    SectionCopy(image, "text") \o SectionCopy(image, "vector_table")
    \o SectionCopy(image, "rodata")

\* C29, as amended: __pre_init copies three sections, the code, the vector
\* table and the read-only data.  A section loaded where it executes is not
\* copied; any other is copied word by word from its load address to its
\* execution address, both pointers advancing by 4, until the execution
\* pointer is the end: (end - start) / 4 words, none outside [start, end).
\* __pre_init returns.  It does not copy the mutable data.
C29_StartupCopy ==
    /\ [](IsPrefix(CopyStores(target), CopiesOfPreInit(target.image)))
    /\ [](pc = "returned" => CopyStores(target) = CopiesOfPreInit(target.image))
    /\ <>(pc = "returned")

\* Two words of code were copied from flash, the read-only data executes
\* where it is loaded and was left alone.
C29_Witness ==
    /\ pc = "returned"
    /\ target.image["__sitext"] = FlashStart("text")
    /\ target.image["__etext"] = Plus(ExecStart("text"), 8)
    /\ target.image["__sirodata"] = target.image["__srodata"]
    /\ target.image["__erodata"] = Plus(ExecStart("rodata"), 4)
    /\ CopyStores(target)
         = <<<<ExecStart("text"), ResetMem[FlashStart("text")]>>,
             <<Plus(ExecStart("text"), 4),
               ResetMem[Plus(FlashStart("text"), 4)]>>>>

\* C29, as claimed: when __pre_init returns, each of the four sections
\* (the mutable data too) that is loaded away from where it executes has
\* been copied to its execution region.
C29_FourPairs ==
    pc = "returned" =>
        \A sec \in LinkedSections :
            LET exec == target.image[StartOf(sec)]
                load == target.image[LoadOf(sec)]
                words == (ToNat(target.image[EndOf(sec)]) - ToNat(exec)) \div 4
            IN  load # exec =>
                    \A k \in 0..(words - 1) :
                        target.mem[Plus(exec, 4 * k)] = ResetMem[Plus(load, 4 * k)]

(***************************************************************************)
(* Properties of the startup order (checked under SpecTarget).             *)
(***************************************************************************)
\* The families with split fields: the 11xx parts of 16 banks.
SplitFamilies == {"Imxrt1160", "Imxrt1170"}

\* The family the image was emitted for.
ImageFamily(image) ==
    CHOOSE family \in Family : image["__imxrt_family"] = ToU32(id(family))

\* The registers of the FlexRAM configuration of the family.
GprBase(family) ==
    IF family \in SplitFamilies THEN IOMUXC_GPR_11xx ELSE IOMUXC_GPR_10xx

\* The positions of a store to the address among the stores.
StoresTo(t, address) == {i \in 1..Len(t.stores) : t.stores[i][1] = address}

\* C30: the bank-role word is written and the configuration enabled before
\* the first word of a section is copied; a family with split fields has
\* the upper 16 bits of the word in GPR18 and the lower 16 bits in GPR17,
\* every other family the whole word in GPR17.
C30_FlexramFirst ==
    LET family == ImageFamily(target.image)
        config == target.image["__flexram_config"]
        base == GprBase(family)
    IN  /\ \A i \in 1..Len(target.stores) :
              target.stores[i][1] \notin DeviceRegisters =>
                  /\ \E j \in StoresTo(target, GPR17(base)) : j < i
                  /\ \E j \in StoresTo(target, GPR16(base)) : j < i
                  /\ family \in SplitFamilies =>
                        \E j \in StoresTo(target, GPR18(base)) : j < i
        /\ pc \notin {"reset", "flexram"} =>
              IF family \in SplitFamilies
              THEN /\ target.mem[GPR18(base)] = U32(0, config.hi)
                   /\ target.mem[GPR17(base)] = U32(0, config.lo)
              ELSE target.mem[GPR17(base)] = config

====
